---- MODULE Spec2Model ----
(***************************************************************************)
(* Collection pipeline of binance-bot-simulator.                           *)
(*                                                                         *)
(*   Part A  BinanceClient.getHistoricalKlines  (src/api/binanceClient.js) *)
(*                                                                         *)
(* Times are integer milliseconds.  A candle of the server's series is     *)
(* named by its index i; its openTime is SeriesT0 + i * step and its       *)
(* closeTime is openTime + dur.  A list of candles is kept as the sequence *)
(* of the slices <<lo, hi>> (candles lo..hi, in order) that were pushed    *)
(* onto it; the list itself is the concatenation of the slices.            *)
(***************************************************************************)
EXTENDS Integers, Sequences, FiniteSets, TLC

Min(a, b) == IF a < b THEN a ELSE b
Max(a, b) == IF a > b THEN a ELSE b
CeilDiv(a, b) == (a + b - 1) \div b

(***************************************************************************)
(* Part A.  getHistoricalKlines                                            *)
(***************************************************************************)
VARIABLES
  hk_pc,             \* "idle" | "call" (awaiting getKlines) | "sleep" | "done"
  server,            \* the candle series held by the server and how it answers
  startTime,         \* argument startTime
  endTime,           \* argument endTime
  allKlines,         \* sequence of pushed slices <<lo, hi>>
  currentStartTime,  \* the cursor
  iterations,        \* loop counter
  callCount,         \* number of getKlines calls issued (the test's callCount)
  lastCall,          \* startTime and outcome of the latest getKlines call
  hk_aborted,        \* a non-rate-limit error ended the loop
  hk_rateLimited     \* some getKlines call of this run failed with a rate-limit error

hkVars == <<hk_pc, server, startTime, endTime, allKlines, currentStartTime,
            iterations, callCount, lastCall, hk_aborted, hk_rateLimited>>

(***************************************************************************)
(* Part B.  BinanceClient.request, parseApiError, enforceRateLimit         *)
(***************************************************************************)
VARIABLES
  now                 \* Date.now()

VARIABLES
  rq_pc,              \* "idle" | "rateLimit" | "http" | "backoff" | "returned" | "thrown"
  retryAttempts,      \* this.retryAttempts
  rateLimitDelay,     \* this.rateLimitDelay
  clientLastRequestTime,  \* BinanceClient.lastRequestTime
  attempt,            \* loop variable of request()
  rq_wake,            \* time at which the pending sleep resolves
  attemptStart,       \* time at which axios.get of the current attempt was called
  lastReply,          \* what the latest attempt met: the reply, its attempt, its time
  errorInfo,          \* parseApiError(error) of the latest rejected attempt
  rq_slept,           \* the delay slept before the current attempt (0: none)
  rq_result,          \* the value returned, or the error thrown
  pe_error,           \* argument of a direct parseApiError call
  pe_info             \* its result

rqVars == <<rq_pc, retryAttempts, rateLimitDelay, clientLastRequestTime,
            attempt, rq_wake, attemptStart, lastReply, errorInfo, rq_slept, rq_result>>
peVars == <<pe_error, pe_info>>

(***************************************************************************)
(* Part C.  BinanceRateLimitManager                                        *)
(***************************************************************************)
VARIABLES
  maxRequestsPerMinute, maxRequestsPerSecond, maxWeight,   \* constructor options
  requestQueue,        \* this.requestQueue
  isProcessing,        \* this.isProcessing
  lastRequestTime,     \* this.lastRequestTime
  currentWeight,       \* this.currentWeight
  requestsThisMinute,  \* this.requestsThisMinute
  requestsThisSecond,  \* this.requestsThisSecond
  backoffMultiplier,   \* this.backoffMultiplier, in thousandths (1000 = 1.0)
  lastRateLimitTime,   \* this.lastRateLimitTime
  rateLimitHits,       \* this.stats.rateLimitHits
  rl_pc,               \* where the drain loop is suspended: "idle" (no loop),
                       \* "wp_weight" | "wp_minute" | "wp_second" | "wp_interval"
                       \* (sleeps of waitForPermission), "exec" (request.fn in
                       \* flight), "retry" (sleep of executeWithRetry),
                       \* "cooldown" (sleep of handleRateLimitError)
  rl_req,              \* the request the loop is working on
  wp_now,              \* the constant `now` of the running waitForPermission
  rl_wake,             \* when the pending sleep or call settles
  rl_attempt,          \* attempt of executeWithRetry
  secTimerDue,         \* next run of the 1000 ms interval timer
  minTimerDue,         \* next run of the 60000 ms interval timer
  rl_created,          \* executeRequest calls so far
  rl_nextArrival,      \* when executeRequest is called next
  permit,              \* the latest permission: values just before the increments
  grantLog,            \* <<time, weight>> of the permissions of the last minute
  rl_last,             \* how the latest finished request ended
  rl_settled,          \* per request id: "resolved" or "rejected", once settled
  rl_adopted,          \* a reported used weight replaced currentWeight
  rl_failures          \* number of calls of request.fn() that have failed

rlVars == <<maxRequestsPerMinute, maxRequestsPerSecond, maxWeight, requestQueue,
            isProcessing, lastRequestTime, currentWeight, requestsThisMinute,
            requestsThisSecond, backoffMultiplier, lastRateLimitTime, rateLimitHits,
            rl_pc, rl_req, wp_now, rl_wake, rl_attempt, secTimerDue, minTimerDue,
            rl_created, rl_nextArrival, permit, grantLog, rl_last, rl_settled,
            rl_adopted, rl_failures>>

(***************************************************************************)
(* Part D.  WorkerManager                                                  *)
(***************************************************************************)
VARIABLES
  workersCount,        \* this.workersCount, the concurrency of this.queue
  wm_items,            \* argument items of processWithWorkers
  wm_pc,               \* "idle" | "waiting" (on Promise.allSettled) | "returned" | "thrown"
  wm_task,             \* per item: "new" | "queued" | "running" | "settled"
  wm_outcome,          \* per item: how processingFunction(item) settled
  wm_promises,         \* per item: what the promise of queue.add settled with
  wm_results           \* the array returned by processWithWorkers

wmVars == <<workersCount, wm_items, wm_pc, wm_task, wm_outcome, wm_promises, wm_results>>

(***************************************************************************)
(* Part E.  KlineCollector: the save queue and the candle store            *)
(***************************************************************************)
VARIABLES
  saveQueue,           \* this.saveQueue: the calls whose batch waits to be saved
  isSaving,            \* this.isSaving
  sq_calls,            \* the calls of queueSaveKlines / collectSymbolKlines made so far;
                       \* writeFailed: a statement run for the call's batch has failed
  sq_loops,            \* the running bodies of processSaveQueue past its guard
  sq_store,            \* the rows of historical_klines (as runs of rows)
  sq_store0,           \* the rows the table held at the start
  sq_failures          \* number of database statements that have failed

sqVars == <<saveQueue, isSaving, sq_calls, sq_loops, sq_store, sq_store0, sq_failures>>

(***************************************************************************)
(* Part F.  ListingAnalyzer.saveListingAnalysis                            *)
(***************************************************************************)
VARIABLES
  listing_analysis,  \* the rows of table listing_analysis
  la_last,           \* per symbol id: the last saveListingAnalysis call
  la_since           \* per symbol id: retry_count updates since that call

laVars == <<listing_analysis, la_last, la_since>>

(***************************************************************************)
(* Part G.  ListingAnalyzer.determineListingDate, analyzeSymbolListing     *)
(***************************************************************************)
VARIABLES
  dl_pc,               \* where analyzeSymbolListing is
  dl_attempt,          \* attempt of analyzeSymbolListing
  dl_meta,             \* what getExchangeInfo gave for the symbol
  dl_daily,            \* reply to the daily getKlines
  dl_hourly,           \* reply to the hourly getKlines
  dl_minute,           \* reply to the minute getKlines
  dl_requests,         \* intervals of the getKlines calls of this attempt
  dl_copy,             \* which definition of determineListingDate runs
  dl_earliest,         \* earliestTimestamp
  dl_i,                \* i of the search for older candles
  dl_return,           \* how determineListingDate ended
  dl_result            \* what analyzeSymbolListing returned

dlVars == <<dl_pc, dl_attempt, dl_meta, dl_daily, dl_hourly, dl_minute,
            dl_requests, dl_copy, dl_earliest, dl_i, dl_return, dl_result>>

(***************************************************************************)
(* Part H.  BinanceRateLimitManager: the backoff multiplier                *)
(***************************************************************************)
VARIABLES
  bm_call              \* the latest call that may write backoffMultiplier

bmVars == <<bm_call>>

(***************************************************************************)
(* Part I.  Concurrent request() calls on the shared BinanceClient         *)
(***************************************************************************)
VARIABLES
  er_pc,               \* per caller: "idle" | "sleep" (in enforceRateLimit) | "sent"
  er_wake,             \* per caller: when its sleep is over
  er_sentAt,           \* per caller: when its HTTP request was sent
  er_ticks             \* times the clock moved on without a timer being due

erVars == <<er_pc, er_wake, er_sentAt, er_ticks>>

(***************************************************************************)
(* Part J.  KlineCollector.waitForAllSaves                                 *)
(***************************************************************************)
VARIABLES
  ws_pc                \* the call of waitForAllSaves: "idle" | "sleeping" | "returned"

wsVars == <<ws_pc>>

(***************************************************************************)
(* Part K.  The listing_analysis writes that throw                         *)
(***************************************************************************)
VARIABLES
  db_locked      \* the writes of saveListingAnalysis that throw
                 \* (database is locked): pairs <<attempt, place>>, place
                 \* "try" or "catch" of analyzeSymbolListing

dbVars == <<db_locked>>

(***************************************************************************)
(* Part L.  ListingAnalyzer.analyzeListingDates, run after run             *)
(***************************************************************************)
VARIABLES
  ar_runs,             \* analyzeListingDates calls made
  ar_pending,          \* symbols of the current run not yet analysed
  ar_failed            \* per symbol: runs that selected it and recorded error

arVars == <<ar_runs, ar_pending, ar_failed>>

vars == <<now, hkVars, rqVars, peVars, rlVars, wmVars, sqVars,
          laVars, dlVars, bmVars, erVars, wsVars, dbVars, arVars>>

\* what the steps of one part leave alone
hkOthers == <<now, rqVars, peVars, rlVars, wmVars, sqVars, laVars, dlVars, bmVars, erVars, wsVars, dbVars, arVars>>
rqOthers == <<hkVars, peVars, rlVars, wmVars, sqVars, laVars, dlVars, bmVars, erVars, wsVars, dbVars, arVars>>
peOthers == <<now, hkVars, rqVars, rlVars, wmVars, sqVars, laVars, dlVars, bmVars, erVars, wsVars, dbVars, arVars>>
rlOthers == <<hkVars, rqVars, peVars, wmVars, sqVars, laVars, dlVars, bmVars, erVars, wsVars, dbVars, arVars>>
wmOthers == <<now, hkVars, rqVars, peVars, rlVars, sqVars, laVars, dlVars, bmVars, erVars, wsVars, dbVars, arVars>>
sqOthers == <<now, hkVars, rqVars, peVars, rlVars, wmVars, laVars, dlVars, bmVars, erVars, wsVars, dbVars, arVars>>
laOthers == <<now, hkVars, rqVars, peVars, rlVars, wmVars, sqVars, dlVars, bmVars, erVars, wsVars, dbVars, arVars>>
dlOthers == <<now, hkVars, rqVars, peVars, rlVars, wmVars, sqVars, bmVars, erVars, wsVars, dbVars, arVars>>
bmOthers == <<now, hkVars, rqVars, peVars, wmVars, sqVars, laVars, dlVars, erVars, wsVars, dbVars, arVars>>
erOthers == <<hkVars, peVars, rlVars, wmVars, sqVars, laVars, dlVars, bmVars, wsVars, dbVars, arVars>>
wsOthers == <<now, hkVars, rqVars, peVars, rlVars,
              wmVars, sqVars, laVars, dlVars, bmVars, erVars, dbVars, arVars>>
dbOthers == <<now, hkVars, rqVars, peVars, rlVars, wmVars,
              sqVars, laVars, dlVars, bmVars, erVars, wsVars, arVars>>
arOthers == <<now, hkVars, rqVars, peVars, rlVars, wmVars,
              sqVars, dlVars, bmVars, erVars, wsVars, dbVars>>

MAX_KLINES == 1000
MAX_ITERATIONS == 100

\* openTime of the first candle of every series (a positive wall-clock time)
SeriesT0 == 600000

OpenTime(i) == SeriesT0 + i * server.step
CloseTime(i) == OpenTime(i) + server.dur

SliceLen(s) == IF s[2] < s[1] THEN 0 ELSE s[2] - s[1] + 1

\* What the test's stub getKlines (and a server that honours startTime,
\* endTime and limit) returns: the first `limit` candles with
\* from <= openTime <= to, as a slice of the series.
ContractPage(from, to, limit) ==
  LET lo == IF from <= SeriesT0 THEN 0 ELSE CeilDiv(from - SeriesT0, server.step)
      hiAll == IF to < SeriesT0 THEN 0 - 1
               ELSE Min(server.n - 1, (to - SeriesT0) \div server.step)
  IN <<lo, Min(hiAll, lo + limit - 1)>>

\* A server that ignores startTime answers every request with the first page
\* of the window, so the last closeTime of a page never moves the cursor on.
StalePage(from, to, limit) == ContractPage(startTime, to, limit)

ServerPage(from, to, limit) ==
  IF server.mode = "stale" THEN StalePage(from, to, limit)
  ELSE ContractPage(from, to, limit)

\* klines.length === MAX_KLINES ? klines.slice(0, -1) : klines
KlinesToAdd(page) ==
  IF SliceLen(page) = MAX_KLINES THEN <<page[1], page[2] - 1>> ELSE page

NextCursor_OpenTime(page) == OpenTime(page[2])

\* lastKline[6] + 1
NextCursor(page) == CloseTime(page[2]) + 1

\* allKlines.push(...klinesToAdd): pushing no candle leaves the list as it is
Push(list, slice) == IF SliceLen(slice) = 0 THEN list ELSE Append(list, slice)

LoopCondition_NoCap(cursor, iters) == cursor < endTime

\* while (currentStartTime < endTime && iterations < MAX_ITERATIONS)
LoopCondition(cursor, iters) == cursor < endTime /\ iters < MAX_ITERATIONS

\* One evaluation of the loop head: either iterations++ and the getKlines
\* call is issued, or the loop is left and the function returns.
HK_LoopHead(pc, cursor, iters) ==
  IF LoopCondition(cursor, iters)
  THEN [pc |-> "call", iterations |-> iters + 1, issued |-> TRUE]
  ELSE [pc |-> "done", iterations |-> iters, issued |-> FALSE]

HK_Enter(cursor) ==
  LET h == HK_LoopHead(hk_pc, cursor, iterations)
  IN /\ hk_pc' = h.pc
     /\ iterations' = h.iterations
     /\ callCount' = IF h.issued THEN callCount + 1 ELSE callCount
     /\ lastCall' = IF h.issued THEN [start |-> cursor, outcome |-> "pending"]
                    ELSE lastCall

\* getHistoricalKlines(symbol, interval, startTime, endTime) is called
HK_Start ==
  /\ hk_pc = "idle"
  /\ allKlines' = <<>>
  /\ currentStartTime' = startTime
  /\ HK_Enter(startTime)
  /\ UNCHANGED <<server, startTime, endTime, hk_aborted, hk_rateLimited>>
  /\ UNCHANGED hkOthers

\* the window of a page request reaches one page beyond the cursor
PageArgs_PageWindow(cursor) ==
  [startTime |-> cursor, endTime |-> cursor + MAX_KLINES * server.step,
   limit |-> MAX_KLINES]

\* getKlines(symbol, interval, currentStartTime, endTime, MAX_KLINES)
PageArgs(cursor) ==
  [startTime |-> cursor, endTime |-> endTime, limit |-> MAX_KLINES]

\* the page the server returns for the request made at `cursor`
RequestedPage(cursor) ==
  ServerPage(PageArgs(cursor).startTime, PageArgs(cursor).endTime,
             PageArgs(cursor).limit)

\* getKlines resolves with a page
HK_Page ==
  /\ hk_pc = "call"
  /\ LET page == RequestedPage(currentStartTime)
     IN IF SliceLen(page) = 0
        THEN /\ hk_pc' = "done"            \* break
             /\ lastCall' = [lastCall EXCEPT !.outcome = "empty"]
             /\ UNCHANGED <<allKlines, currentStartTime, iterations, callCount>>
        ELSE /\ allKlines' = Push(allKlines, KlinesToAdd(page))
             /\ currentStartTime' = NextCursor(page)
             /\ LET h == HK_LoopHead(hk_pc, NextCursor(page), iterations)
                IN /\ hk_pc' = h.pc
                   /\ iterations' = h.iterations
                   /\ callCount' = IF h.issued THEN callCount + 1 ELSE callCount
                   /\ lastCall' = IF h.issued
                                  THEN [start |-> NextCursor(page), outcome |-> "pending"]
                                  ELSE [lastCall EXCEPT !.outcome = "page"]
  /\ UNCHANGED <<server, startTime, endTime, hk_aborted, hk_rateLimited>>
  /\ UNCHANGED hkOthers

\* getKlines rejects with an error whose message contains '-1003' or
\* 'rate limit': await sleep(30000); continue
HK_RateLimitError ==
  /\ hk_pc = "call"
  /\ hk_pc' = "sleep"
  /\ lastCall' = [lastCall EXCEPT !.outcome = "rate_limit"]
  /\ hk_rateLimited' = TRUE
  /\ UNCHANGED <<server, startTime, endTime, allKlines, currentStartTime,
                 iterations, callCount, hk_aborted>>
  /\ UNCHANGED hkOthers

HK_SleepDone_Restart ==
  /\ hk_pc = "sleep"
  /\ currentStartTime' = startTime
  /\ HK_Enter(startTime)
  /\ UNCHANGED <<server, startTime, endTime, allKlines, hk_aborted, hk_rateLimited>>
  /\ UNCHANGED hkOthers

\* the 30 s sleep is over: continue with the loop head
HK_SleepDone ==
  /\ hk_pc = "sleep"
  /\ HK_Enter(currentStartTime)
  /\ UNCHANGED <<server, startTime, endTime, allKlines, currentStartTime,
                 hk_aborted, hk_rateLimited>>
  /\ UNCHANGED hkOthers

\* the error leaves the function, and the candles collected with it
HK_OtherError_DropsKlines ==
  /\ hk_pc = "call"
  /\ hk_pc' = "done"
  /\ hk_aborted' = TRUE
  /\ allKlines' = <<>>
  /\ lastCall' = [lastCall EXCEPT !.outcome = "error"]
  /\ UNCHANGED <<server, startTime, endTime, currentStartTime,
                 iterations, callCount, hk_rateLimited>>
  /\ UNCHANGED hkOthers

\* getKlines rejects with any other error: break
HK_OtherError ==
  /\ hk_pc = "call"
  /\ hk_pc' = "done"
  /\ hk_aborted' = TRUE
  /\ lastCall' = [lastCall EXCEPT !.outcome = "error"]
  /\ UNCHANGED <<server, startTime, endTime, allKlines, currentStartTime,
                 iterations, callCount, hk_rateLimited>>
  /\ UNCHANGED hkOthers

HKNext == HK_Start \/ HK_Page \/ HK_RateLimitError \/ HK_SleepDone \/ HK_OtherError

\* Series and windows: n candles of `step` ms, each closing `dur` ms after
\* it opens; the window is [SeriesT0 + from, SeriesT0 + to].
Series ==
  { \* the repository's test: 48 h of 1m candles, end = start + total * 60000
    [n |-> 2880, step |-> 60000, dur |-> 59000, from |-> 0, to |-> 172800000],
    \* Binance: closeTime = next openTime - 1
    [n |-> 2880, step |-> 60000, dur |-> 59999, from |-> 0, to |-> 172800000],
    [n |-> 1000, step |-> 60000, dur |-> 59999, from |-> 0, to |-> 60000000],
    [n |-> 999,  step |-> 60000, dur |-> 59999, from |-> 0, to |-> 59940000],
    [n |-> 2001, step |-> 60000, dur |-> 59999, from |-> 0, to |-> 120060000],
    \* a window inside the series, not aligned with the candles
    [n |-> 2880, step |-> 60000, dur |-> 59999, from |-> 90000, to |-> 90030000],
    [n |-> 1,    step |-> 60000, dur |-> 59999, from |-> 0, to |-> 60000],
    [n |-> 0,    step |-> 60000, dur |-> 59999, from |-> 0, to |-> 60000],
    \* more full pages than the loop may fetch
    [n |-> 150000, step |-> 1000, dur |-> 999, from |-> 0, to |-> 150000000] }

HKIdle ==
  /\ hk_pc = "idle"
  /\ server = [mode |-> "contract", n |-> 0, step |-> 60000, dur |-> 59999,
               from |-> 0, to |-> 0]
  /\ startTime = SeriesT0
  /\ endTime = SeriesT0
  /\ allKlines = <<>>
  /\ currentStartTime = 0
  /\ iterations = 0
  /\ callCount = 0
  /\ lastCall = [start |-> 0, outcome |-> "none"]
  /\ hk_aborted = FALSE
  /\ hk_rateLimited = FALSE

HKInitWith(modes) ==
  /\ hk_pc = "idle"
  /\ \E s \in Series, m \in modes :
        server = [mode |-> m, n |-> s.n, step |-> s.step, dur |-> s.dur,
                  from |-> s.from, to |-> s.to]
  /\ startTime = SeriesT0 + server.from
  /\ endTime = SeriesT0 + server.to
  /\ allKlines = <<>>
  /\ currentStartTime = 0
  /\ iterations = 0
  /\ callCount = 0
  /\ lastCall = [start |-> 0, outcome |-> "none"]
  /\ hk_aborted = FALSE
  /\ hk_rateLimited = FALSE

(***************************************************************************)
(* Part B.  BinanceClient.request                                          *)
(***************************************************************************)
NoInfo == [code |-> 0, type |-> "NONE", retryable |-> FALSE, httpStatus |-> 0]
NoReply == [kind |-> "none", status |-> 0, data |-> [shape |-> "none", code |-> 0],
            errcode |-> "", attempt |-> 0, at |-> 0]

\* validateStatus of the axios instance: the statuses axios resolves with
validateStatus(status) == status < 600

RetryableCodes == {0 - 1003, 0 - 1001, 0 - 1002, 0 - 1016, 0 - 1020}
NonRetryableCodes == {0 - 1102, 0 - 1121, 0 - 1013, 0 - 2010, 0 - 2011, 0 - 1125}

\* isRetryableError(code)
isRetryableError(code) ==
  IF code \in NonRetryableCodes THEN FALSE
  ELSE IF code \in RetryableCodes THEN TRUE
  ELSE TRUE

\* parseApiError(error).  error.response = [status, data]; data is
\* [shape, code] with shape "none" (falsy body), "string", "binance"
\* ({code, msg}), "array" or "object"; error.request is set when no
\* response arrived, error.code is then axios' error code.
parseApiError(error) ==
  LET init == [code |-> 0 - 9999, type |-> "UNKNOWN", retryable |-> FALSE, httpStatus |-> 0]
  IN IF error.response
     THEN LET status == error.status
              data == error.data
              a == [init EXCEPT !.httpStatus = status]
              b == CASE data.shape = "string" -> [a EXCEPT !.type = "STRING_RESPONSE"]
                     [] data.shape = "binance" ->
                          [a EXCEPT !.code = data.code,
                                    !.type = "BINANCE_ERROR",
                                    !.retryable = isRetryableError(data.code)]
                     [] data.shape = "array" ->
                          [a EXCEPT !.type = "ARRAY_RESPONSE", !.retryable = FALSE]
                     [] data.shape = "object" ->
                          [a EXCEPT !.type = "OBJECT_RESPONSE", !.retryable = FALSE]
                     [] OTHER -> a
          IN IF status = 429
             THEN [b EXCEPT !.type = "RATE_LIMIT", !.retryable = TRUE, !.code = 0 - 1003]
             ELSE IF status >= 500
             THEN [b EXCEPT !.type = "SERVER_ERROR", !.retryable = TRUE]
             ELSE IF status = 400
             THEN [b EXCEPT !.type = "BAD_REQUEST", !.retryable = FALSE]
             ELSE b
     ELSE IF error.request
     THEN [init EXCEPT !.type = "NETWORK_ERROR", !.retryable = TRUE,
                       !.code = CASE error.errcode = "ECONNABORTED" -> 0 - 1001
                                  [] error.errcode = "ENOTFOUND" -> 0 - 1002
                                  [] error.errcode = "ECONNREFUSED" -> 0 - 1002
                                  [] OTHER -> 0 - 9999]
     ELSE [init EXCEPT !.type = "REQUEST_ERROR"]

Pow2(n) == IF n <= 0 THEN 1 ELSE 2 ^ n

\* delayMs of request(): Math.min(2^attempt * 1000, 30000), with the floors
\* of 10000 for RATE_LIMIT and 5000 for SERVER_ERROR
RetryDelay(info, att) ==
  LET delayMs == Min(Pow2(att) * 1000, 30000)
  IN IF info.type = "RATE_LIMIT" THEN Max(delayMs, 10000)
     ELSE IF info.type = "SERVER_ERROR" THEN Max(delayMs, 5000)
     ELSE delayMs

\* What the server (or the network) does to one attempt
HttpStatuses == {200, 400, 404, 418, 429, 500, 503, 600}
BodyShapes ==
  { [shape |-> "none", code |-> 0], [shape |-> "string", code |-> 0],
    [shape |-> "array", code |-> 0], [shape |-> "object", code |-> 0],
    [shape |-> "binance", code |-> 0 - 1003], [shape |-> "binance", code |-> 0 - 1121],
    [shape |-> "binance", code |-> 0 - 1102], [shape |-> "binance", code |-> 0 - 2015] }
NetworkCodes == {"ECONNABORTED", "ENOTFOUND", "ECONNREFUSED", "ECONNRESET"}

Replies ==
  { [kind |-> "http", status |-> st, data |-> d, errcode |-> ""] :
       st \in HttpStatuses, d \in BodyShapes }
  \cup { [kind |-> "network", status |-> 0, data |-> [shape |-> "none", code |-> 0],
          errcode |-> c] : c \in NetworkCodes }
  \cup { [kind |-> "setup", status |-> 0, data |-> [shape |-> "none", code |-> 0],
          errcode |-> ""] }

\* the replies the model lets an attempt of request() meet: a 200 with the
\* payload, 429 or 418 with the rate-limit code, 400 with a parameter or
\* symbol error, a server error with a text body, or no response
RequestReplies ==
  { r \in Replies :
      \/ r.kind # "http"
      \/ r.status = 200 /\ r.data.shape = "array"
      \/ r.status \in {418, 429} /\ r.data = [shape |-> "binance", code |-> 0 - 1003]
      \/ /\ r.status = 400
         /\ r.data \in { [shape |-> "binance", code |-> 0 - 1102],
                         [shape |-> "binance", code |-> 0 - 1121] }
      \/ r.status \in {500, 600} /\ r.data.shape = "string" }

\* time an attempt takes until axios settles (the axios timeout is 30000)
Latencies == {200, 1500}

\* axios resolves the attempt (the response passes validateStatus)
AxiosResolves(reply) == reply.kind = "http" /\ validateStatus(reply.status)

\* the error object axios rejects with
AxiosError(reply) ==
  [response |-> reply.kind = "http", status |-> reply.status, data |-> reply.data,
   request |-> reply.kind = "network", errcode |-> reply.errcode]

\* enforceRateLimit() followed by axios.get: either the sleep is started, or
\* lastRequestTime is stamped and the HTTP call goes out at once.
RQ_Attempt(att, t, slept) ==
  LET timeSinceLastRequest == t - clientLastRequestTime
  IN /\ attempt' = att
     /\ now' = t
     /\ rq_slept' = slept
     /\ IF timeSinceLastRequest < rateLimitDelay
        THEN /\ rq_pc' = "rateLimit"
             /\ rq_wake' = t + (rateLimitDelay - timeSinceLastRequest)
             /\ UNCHANGED <<clientLastRequestTime, attemptStart>>
        ELSE /\ rq_pc' = "http"
             /\ clientLastRequestTime' = t
             /\ attemptStart' = t
             /\ rq_wake' = rq_wake

\* request(endpoint, params) is called
RQ_Call ==
  /\ rq_pc = "idle"
  /\ RQ_Attempt(1, now, 0)
  /\ UNCHANGED <<retryAttempts, rateLimitDelay, lastReply, errorInfo, rq_result>>
  /\ UNCHANGED rqOthers

\* the sleep of enforceRateLimit is over
RQ_RateLimitWake ==
  /\ rq_pc = "rateLimit"
  /\ now' = rq_wake
  /\ clientLastRequestTime' = rq_wake
  /\ attemptStart' = rq_wake
  /\ rq_pc' = "http"
  /\ UNCHANGED <<retryAttempts, rateLimitDelay, attempt, rq_wake, lastReply,
                 errorInfo, rq_slept, rq_result>>
  /\ UNCHANGED rqOthers

\* axios.get settles: return response.data, or the catch block
RQ_Settle ==
  /\ rq_pc = "http"
  /\ \E reply \in RequestReplies, lat \in Latencies :
       LET t == now + lat
           info == parseApiError(AxiosError(reply))
       IN /\ now' = t
          /\ lastReply' = [kind |-> reply.kind, status |-> reply.status,
                           data |-> reply.data, errcode |-> reply.errcode,
                           attempt |-> attempt, at |-> t]
          /\ IF AxiosResolves(reply)
             THEN /\ rq_pc' = "returned"
                  /\ rq_result' = [status |-> reply.status, data |-> reply.data]
                  /\ UNCHANGED <<errorInfo, rq_wake>>
             ELSE /\ errorInfo' = info
                  /\ IF ~info.retryable \/ attempt = retryAttempts
                     THEN /\ rq_pc' = "thrown"
                          /\ rq_result' = [status |-> 0,
                                           data |-> [shape |-> "error", code |-> info.code]]
                          /\ rq_wake' = rq_wake
                     ELSE /\ rq_pc' = "backoff"
                          /\ rq_wake' = t + RetryDelay(info, attempt)
                          /\ rq_result' = rq_result
  /\ UNCHANGED <<retryAttempts, rateLimitDelay, clientLastRequestTime, attempt,
                 attemptStart, rq_slept>>
  /\ UNCHANGED rqOthers

RQ_BackoffWake_NoAcquire ==
  /\ rq_pc = "backoff"
  /\ attempt' = attempt + 1
  /\ now' = rq_wake
  /\ rq_slept' = rq_wake - now
  /\ rq_pc' = "http"
  /\ attemptStart' = rq_wake
  /\ UNCHANGED <<retryAttempts, rateLimitDelay, lastReply, errorInfo, rq_result,
                 clientLastRequestTime, rq_wake>>
  /\ UNCHANGED rqOthers

\* the backoff sleep is over: attempt++
RQ_BackoffWake ==
  /\ rq_pc = "backoff"
  /\ RQ_Attempt(attempt + 1, rq_wake, rq_wake - now)
  /\ UNCHANGED <<retryAttempts, rateLimitDelay, lastReply, errorInfo, rq_result>>
  /\ UNCHANGED rqOthers

RQNext == RQ_Call \/ RQ_RateLimitWake \/ RQ_Settle \/ RQ_BackoffWake

\* RETRY_ATTEMPTS and RATE_LIMIT_DELAY_MS of the environment, or the
\* defaults 5 and 300; the client may have sent a request just before.
RQInit ==
  /\ rq_pc = "idle"
  /\ retryAttempts \in {1, 3, 5}
  /\ rateLimitDelay \in {100, 300}
  /\ clientLastRequestTime \in {0, 999900}
  /\ attempt = 0
  /\ rq_wake = 0
  /\ attemptStart = 0
  /\ lastReply = NoReply
  /\ errorInfo = NoInfo
  /\ rq_slept = 0
  /\ rq_result = [status |-> 0, data |-> [shape |-> "none", code |-> 0]]

RQIdle ==
  /\ rq_pc = "idle"
  /\ retryAttempts = 5
  /\ rateLimitDelay = 300
  /\ clientLastRequestTime = 0
  /\ attempt = 0
  /\ rq_wake = 0
  /\ attemptStart = 0
  /\ lastReply = NoReply
  /\ errorInfo = NoInfo
  /\ rq_slept = 0
  /\ rq_result = [status |-> 0, data |-> [shape |-> "none", code |-> 0]]

(***************************************************************************)
(* parseApiError called on its own                                         *)
(***************************************************************************)
PE_Parse ==
  /\ pe_info = NoInfo
  /\ pe_info' = parseApiError(pe_error)
  /\ UNCHANGED pe_error
  /\ UNCHANGED peOthers

\* the failed calls: an error status, or no response at all
\* (Binance sends its rate-limit code -1003 with status 429 or 418)
FailedReplies ==
  { r \in Replies :
      \/ r.kind = "network"
      \/ /\ r.kind = "http" /\ r.status >= 400
         /\ r.data.code = 0 - 1003 => r.status \in {418, 429} }

PEInit ==
  /\ pe_error \in { AxiosError(r) : r \in FailedReplies }
  /\ pe_info = NoInfo

PEIdle ==
  /\ pe_error = AxiosError(CHOOSE r \in Replies : r.kind = "setup")
  /\ pe_info = NoInfo

(***************************************************************************)
(* Part C.  BinanceRateLimitManager                                        *)
(*                                                                         *)
(* JavaScript runs a handler without interruption up to its next await, so *)
(* each action below is one such stretch of code.  The stretches are       *)
(* functions on the record RL of the manager's fields.  sleep(ms) resumes  *)
(* ms (rounded up to whole milliseconds) after it was called.              *)
(***************************************************************************)
NoReq == [id |-> 0, weight |-> 0, priority |-> "normal", createdAt |-> 0]
NoPermit == [n |-> 0, at |-> 0, weight |-> 0, cw |-> 0, rpm |-> 0, rps |-> 0,
             since |-> 0, backoff |-> 1000]
NoEnd == [id |-> 0, kind |-> "none", at |-> 0, backoff |-> 1000,
          error |-> [ok |-> TRUE, response |-> FALSE, status |-> 0, code |-> 0,
                     retryAfter |-> 0 - 1, usedWeight |-> 0 - 1, errcode |-> "",
                     rateLimitText |-> FALSE]]

\* bounds of the model
MaxRequests == 3
MaxFailures == 3

\* options.timeout || 30000
RequestTimeoutMs == 30000
\* executeWithRetry(request, maxRetries = 3)
maxRetries == 3
\* this.weightResetInterval
weightResetInterval == 60000

\* this.minIntervalMs = Math.ceil(1000 / this.maxRequestsPerSecond)
minIntervalMs == CeilDiv(1000, maxRequestsPerSecond)

RL ==
  [q |-> requestQueue, proc |-> isProcessing, last |-> lastRequestTime,
   cw |-> currentWeight, rpm |-> requestsThisMinute, rps |-> requestsThisSecond,
   backoff |-> backoffMultiplier, lastRL |-> lastRateLimitTime, hits |-> rateLimitHits,
   pc |-> rl_pc, req |-> rl_req, wpNow |-> wp_now, wake |-> rl_wake, att |-> rl_attempt,
   permit |-> permit, log |-> grantLog, lastEnd |-> rl_last, settled |-> rl_settled,
   adopted |-> rl_adopted, fails |-> rl_failures]

RLSet(st) ==
  /\ requestQueue' = st.q
  /\ isProcessing' = st.proc
  /\ lastRequestTime' = st.last
  /\ currentWeight' = st.cw
  /\ requestsThisMinute' = st.rpm
  /\ requestsThisSecond' = st.rps
  /\ backoffMultiplier' = st.backoff
  /\ lastRateLimitTime' = st.lastRL
  /\ rateLimitHits' = st.hits
  /\ rl_pc' = st.pc
  /\ rl_req' = st.req
  /\ wp_now' = st.wpNow
  /\ rl_wake' = st.wake
  /\ rl_attempt' = st.att
  /\ permit' = st.permit
  /\ grantLog' = st.log
  /\ rl_last' = st.lastEnd
  /\ rl_settled' = st.settled
  /\ rl_adopted' = st.adopted
  /\ rl_failures' = st.fails

PriorityOrder(p) == CASE p = "high" -> 0 [] p = "normal" -> 1 [] OTHER -> 2

AddToQueue_Append(q, r) == Append(q, r)

\* addToQueue(request)
AddToQueue(q, r) ==
  LET later == { i \in 1..Len(q) : PriorityOrder(r.priority) < PriorityOrder(q[i].priority) }
      insertIndex == IF later = {} THEN Len(q) + 1
                     ELSE CHOOSE i \in later : \A j \in later : i <= j
  IN SubSeq(q, 1, insertIndex - 1) \o <<r>> \o SubSeq(q, insertIndex, Len(q))

\* the permissions of the last minute, the new one included
LogGrant(log, t, w) ==
  SelectSeq(log, LAMBDA e : e[1] > t - 60000) \o <<<<t, w>>>>

\* end of waitForPermission (the increments), then executeWithRetry calls
\* request.fn() for the first time
Grant(st, t, lat) ==
  [st EXCEPT !.permit = [n |-> st.permit.n + 1, at |-> t, weight |-> st.req.weight,
                         cw |-> st.cw, rpm |-> st.rpm, rps |-> st.rps,
                         since |-> t - st.last, backoff |-> st.backoff],
             !.log = LogGrant(st.log, t, st.req.weight),
             !.cw = st.cw + st.req.weight,
             !.rpm = st.rpm + 1,
             !.rps = st.rps + 1,
             !.last = t,
             !.pc = "exec", !.att = 1, !.wake = t + lat]

\* waitForPermission(weight) from its check number `stage` on, at time t:
\* it runs into the sleep of the first check that fails, or to its end.
WaitForPermission(st, stage, t, lat) ==
  LET weight == st.req.weight
      timeSinceLastRequest == st.wpNow - st.last
      requiredInterval == minIntervalMs * st.backoff        \* in 1/1000 ms
  IN IF stage <= 1 /\ st.cw + weight > maxWeight
     THEN [st EXCEPT !.pc = "wp_weight",
                     !.wake = t + (weightResetInterval - (st.wpNow % weightResetInterval))]
     ELSE IF stage <= 2 /\ st.rpm >= maxRequestsPerMinute
     THEN [st EXCEPT !.pc = "wp_minute", !.wake = t + (60000 - (st.wpNow % 60000))]
     ELSE IF stage <= 3 /\ st.rps >= maxRequestsPerSecond
     THEN [st EXCEPT !.pc = "wp_second", !.wake = t + (1000 - (st.wpNow % 1000))]
     ELSE IF stage <= 4 /\ timeSinceLastRequest * 1000 < requiredInterval
     THEN [st EXCEPT !.pc = "wp_interval",
                     !.wake = t + CeilDiv(requiredInterval - timeSinceLastRequest * 1000, 1000)]
     ELSE Grant(st, t, lat)

RECURSIVE LoopTop(_, _, _)
\* head of the while loop of processQueue: leave the loop, or shift the next
\* request, reject it if it has timed out, else enter waitForPermission
LoopTop(st, t, lat) ==
  IF st.q = <<>>
  THEN [st EXCEPT !.proc = FALSE, !.pc = "idle", !.req = NoReq]
  ELSE LET request == Head(st.q)
           st1 == [st EXCEPT !.q = Tail(st.q), !.req = request]
       IN IF t - request.createdAt > RequestTimeoutMs
          THEN LoopTop([st1 EXCEPT !.settled = [@ EXCEPT ![request.id] = "rejected"],
                                   !.lastEnd = [NoEnd EXCEPT !.id = request.id,
                                                             !.kind = "timeout",
                                                             !.at = t,
                                                             !.backoff = st.backoff]],
                       t, lat)
          ELSE WaitForPermission([st1 EXCEPT !.wpNow = t], 1, t, lat)

ProcessQueue_NoGuard(st, t, lat) == LoopTop([st EXCEPT !.proc = TRUE], t, lat)

\* processQueue(): it returns at once when a drain loop is running or the
\* queue is empty, else it sets isProcessing and enters the loop
ProcessQueue(st, t, lat) ==
  IF st.proc \/ st.q = <<>> THEN st
  ELSE LoopTop([st EXCEPT !.proc = TRUE], t, lat)

\* isRateLimitError(error); rateLimitText: the message of the error (the msg
\* of the response body) contains 'rate limit' (or '429')
RLM_isRateLimitError(error) ==
  IF error.response
  THEN error.status = 429 \/ error.code = 0 - 1003 \/ error.rateLimitText
  ELSE error.rateLimitText

\* isRetryableError(error)
RLM_isRetryableError(error) ==
  IF error.response THEN error.status >= 500 \/ error.status = 429
  ELSE error.errcode \in {"ECONNRESET", "ENOTFOUND", "ECONNABORTED"}

\* this.backoffMultiplier * 2.0, without the cap
BackoffAfterRateLimit_NoCap(m) == m * 2

\* Math.min(5.0, this.backoffMultiplier * 2.0)
BackoffAfterRateLimit(m) == Min(5000, m * 2)

RetryAfterMs_IgnoreHeader(error) == 60000

\* retryAfter of handleRateLimitError
RetryAfterMs(error) ==
  IF error.response /\ error.retryAfter >= 0 THEN error.retryAfter * 1000 ELSE 60000

\* processResponseHeaders(headers); usedWeight is
\* parseInt(headers['x-mbx-used-weight-1m']) || 0
ProcessResponseHeaders(st, usedWeight) ==
  IF usedWeight > 0
  THEN [st EXCEPT !.cw = usedWeight,
                  !.adopted = TRUE,
                  !.backoff = IF usedWeight * 100 > 80 * maxWeight
                              THEN Min(3000, (st.backoff * 12) \div 10)
                              ELSE IF usedWeight * 100 < 50 * maxWeight /\ st.backoff > 1000
                              THEN Max(1000, (st.backoff * 95) \div 100)
                              ELSE st.backoff]
  ELSE st

\* catch block of processQueue: request.reject(error), and on a rate-limit
\* error handleRateLimitError up to its sleep
Reject(st, error, t, lat) ==
  LET st1 == [st EXCEPT !.settled = [@ EXCEPT ![st.req.id] = "rejected"],
                        !.lastEnd = [id |-> st.req.id, kind |-> "error", at |-> t,
                                     backoff |-> st.backoff, error |-> error]]
  IN IF RLM_isRateLimitError(error)
     THEN [st1 EXCEPT !.hits = st.hits + 1,
                      !.lastRL = t,
                      !.backoff = BackoffAfterRateLimit(st.backoff),
                      !.pc = "cooldown",
                      !.wake = t + RetryAfterMs(error)]
     ELSE LoopTop(st1, t, lat)

\* request.fn() settles inside executeWithRetry
FnSettled(st, outcome, t, lat) ==
  IF outcome.ok
  THEN LET st1 == IF outcome.usedWeight >= 0
                  THEN ProcessResponseHeaders(st, outcome.usedWeight) ELSE st
           st2 == IF st1.backoff > 1000
                  THEN [st1 EXCEPT !.backoff = Max(1000, (st1.backoff * 9) \div 10)]
                  ELSE st1
           st3 == [st2 EXCEPT !.settled = [@ EXCEPT ![st.req.id] = "resolved"],
                              !.lastEnd = [NoEnd EXCEPT !.id = st.req.id,
                                                        !.kind = "resolved",
                                                        !.at = t,
                                                        !.backoff = st.backoff]]
       IN LoopTop(st3, t, lat)
  ELSE IF RLM_isRateLimitError(outcome) /\ st.att < maxRetries
  THEN [st EXCEPT !.pc = "retry", !.wake = t + Pow2(st.att) * 1000]
  ELSE IF ~RLM_isRateLimitError(outcome) /\ ~RLM_isRetryableError(outcome)
  THEN Reject(st, outcome, t, lat)
  ELSE IF st.att < maxRetries
  THEN [st EXCEPT !.pc = "retry", !.wake = t + st.att * 1000]
  ELSE Reject(st, outcome, t, lat)

\* reset(): the queue is replaced by an empty one, the counters are cleared
Reset(st) ==
  [st EXCEPT !.q = <<>>, !.cw = 0, !.rpm = 0, !.rps = 0, !.backoff = 1000, !.last = 0]

\* inputs
Weights == {1, 2}
Priorities == {"normal", "high"}
ArrivalGaps == {0, 59900}
FnLatencies == {200}
\* options of the constructor and the time of construction
RLSetups ==
  { [maxRequestsPerMinute |-> 900, maxRequestsPerSecond |-> 15, maxWeight |-> 5000,
     at |-> 600000],
    [maxRequestsPerMinute |-> 2,   maxRequestsPerSecond |-> 15, maxWeight |-> 5000,
     at |-> 630000],
    [maxRequestsPerMinute |-> 900, maxRequestsPerSecond |-> 1,  maxWeight |-> 5000,
     at |-> 600000],
    [maxRequestsPerMinute |-> 900, maxRequestsPerSecond |-> 15, maxWeight |-> 2,
     at |-> 630000] }

Ok(usedWeight) ==
  [ok |-> TRUE, response |-> TRUE, status |-> 200, code |-> 0, retryAfter |-> 0 - 1,
   usedWeight |-> usedWeight, errcode |-> "", rateLimitText |-> FALSE]
HttpError(status, code, retryAfter) ==
  [ok |-> FALSE, response |-> TRUE, status |-> status, code |-> code,
   retryAfter |-> retryAfter, usedWeight |-> 0 - 1, errcode |-> "",
   rateLimitText |-> FALSE]
NetworkError(errcode) ==
  [ok |-> FALSE, response |-> FALSE, status |-> 0, code |-> 0, retryAfter |-> 0 - 1,
   usedWeight |-> 0 - 1, errcode |-> errcode, rateLimitText |-> FALSE]

\* what request.fn() may settle with
Outcomes ==
  { Ok(0 - 1), Ok(4500),
    HttpError(429, 0 - 1003, 0 - 1), HttpError(429, 0 - 1003, 120),
    HttpError(500, 0, 0 - 1), HttpError(400, 0 - 1121, 0 - 1) }

\* executeRequest(requestFn, options): addToQueue, then processQueue, which
\* returns at once when a drain loop is already running
RL_ExecuteRequest ==
  /\ rl_created < MaxRequests
  /\ now = rl_nextArrival
  /\ \E w \in Weights, p \in Priorities, gap \in ArrivalGaps, lat \in FnLatencies :
       LET request == [id |-> rl_created + 1, weight |-> w, priority |-> p,
                       createdAt |-> now]
           st1 == [RL EXCEPT !.q = AddToQueue(RL.q, request)]
       IN /\ RLSet(ProcessQueue(st1, now, lat))
          /\ rl_nextArrival' = IF rl_created + 1 < MaxRequests THEN now + gap ELSE now
  /\ rl_created' = rl_created + 1
  /\ UNCHANGED <<now, maxRequestsPerMinute, maxRequestsPerSecond, maxWeight,
                 secTimerDue, minTimerDue>>
  /\ UNCHANGED rlOthers

\* a sleep of waitForPermission is over
RL_PermissionWake ==
  /\ rl_pc \in {"wp_weight", "wp_minute", "wp_second", "wp_interval"}
  /\ now = rl_wake
  /\ \E lat \in FnLatencies :
       RLSet(CASE rl_pc = "wp_weight" -> WaitForPermission([RL EXCEPT !.cw = 0], 2, now, lat)
               [] rl_pc = "wp_minute" -> WaitForPermission(RL, 3, now, lat)
               [] rl_pc = "wp_second" -> WaitForPermission(RL, 4, now, lat)
               [] OTHER -> Grant(RL, now, lat))
  /\ UNCHANGED <<now, maxRequestsPerMinute, maxRequestsPerSecond, maxWeight,
                 secTimerDue, minTimerDue, rl_created, rl_nextArrival>>
  /\ UNCHANGED rlOthers

\* request.fn() settles
RL_FnSettles ==
  /\ rl_pc = "exec"
  /\ now = rl_wake
  /\ \E outcome \in Outcomes, lat \in FnLatencies :
       /\ outcome.ok \/ rl_failures < MaxFailures
       /\ RLSet(FnSettled(IF outcome.ok THEN RL ELSE [RL EXCEPT !.fails = RL.fails + 1],
                          outcome, now, lat))
  /\ UNCHANGED <<now, maxRequestsPerMinute, maxRequestsPerSecond, maxWeight,
                 secTimerDue, minTimerDue, rl_created, rl_nextArrival>>
  /\ UNCHANGED rlOthers

\* the sleep between two attempts of executeWithRetry is over
RL_RetryWake ==
  /\ rl_pc = "retry"
  /\ now = rl_wake
  /\ \E lat \in FnLatencies :
       RLSet([RL EXCEPT !.att = RL.att + 1, !.pc = "exec", !.wake = now + lat])
  /\ UNCHANGED <<now, maxRequestsPerMinute, maxRequestsPerSecond, maxWeight,
                 secTimerDue, minTimerDue, rl_created, rl_nextArrival>>
  /\ UNCHANGED rlOthers

\* the sleep of handleRateLimitError is over
RL_CooldownWake ==
  /\ rl_pc = "cooldown"
  /\ now = rl_wake
  /\ \E lat \in FnLatencies : RLSet(LoopTop(RL, now, lat))
  /\ UNCHANGED <<now, maxRequestsPerMinute, maxRequestsPerSecond, maxWeight,
                 secTimerDue, minTimerDue, rl_created, rl_nextArrival>>
  /\ UNCHANGED rlOthers

\* setInterval(..., 1000)
RL_SecondTimer ==
  /\ now = secTimerDue
  /\ requestsThisSecond' = 0
  /\ secTimerDue' = secTimerDue + 1000
  /\ UNCHANGED <<now, maxRequestsPerMinute, maxRequestsPerSecond, maxWeight, requestQueue,
                 isProcessing, lastRequestTime, currentWeight, requestsThisMinute,
                 backoffMultiplier, lastRateLimitTime, rateLimitHits,
                 rl_pc, rl_req, wp_now, rl_wake, rl_attempt, minTimerDue,
                 rl_created, rl_nextArrival, permit, grantLog, rl_last, rl_settled,
                 rl_adopted, rl_failures>>
  /\ UNCHANGED rlOthers

\* setInterval(..., 60000)
RL_MinuteTimer ==
  /\ now = minTimerDue
  /\ requestsThisMinute' = 0
  /\ currentWeight' = 0
  /\ minTimerDue' = minTimerDue + 60000
  /\ UNCHANGED <<now, maxRequestsPerMinute, maxRequestsPerSecond, maxWeight, requestQueue,
                 isProcessing, lastRequestTime, requestsThisSecond,
                 backoffMultiplier, lastRateLimitTime, rateLimitHits,
                 rl_pc, rl_req, wp_now, rl_wake, rl_attempt, secTimerDue,
                 rl_created, rl_nextArrival, permit, grantLog, rl_last, rl_settled,
                 rl_adopted, rl_failures>>
  /\ UNCHANGED rlOthers

\* the times at which something is due; a run of an interval timer that
\* finds its counters at zero changes nothing and is passed over
DueTimes ==
  (IF rl_pc # "idle" THEN {rl_wake} ELSE {})
  \cup (IF rl_created < MaxRequests THEN {rl_nextArrival} ELSE {})
  \cup (IF requestsThisSecond > 0 THEN {secTimerDue} ELSE {})
  \cup (IF requestsThisMinute > 0 \/ currentWeight > 0 THEN {minTimerDue} ELSE {})

NextRun(due, period, t) ==
  IF due >= t THEN due ELSE due + CeilDiv(t - due, period) * period

\* time passes until the next thing is due
RL_Advance ==
  /\ DueTimes # {}
  /\ \A d \in DueTimes : d > now
  /\ LET t == CHOOSE d \in DueTimes : \A e \in DueTimes : d <= e
     IN /\ now' = t
        /\ secTimerDue' = NextRun(secTimerDue, 1000, t)
        /\ minTimerDue' = NextRun(minTimerDue, 60000, t)
  /\ UNCHANGED <<maxRequestsPerMinute, maxRequestsPerSecond, maxWeight, requestQueue,
                 isProcessing, lastRequestTime, currentWeight, requestsThisMinute,
                 requestsThisSecond, backoffMultiplier, lastRateLimitTime, rateLimitHits,
                 rl_pc, rl_req, wp_now, rl_wake, rl_attempt,
                 rl_created, rl_nextArrival, permit, grantLog, rl_last, rl_settled,
                 rl_adopted, rl_failures>>
  /\ UNCHANGED rlOthers

\* reset() is called between two stretches of the drain loop
RL_Reset ==
  /\ RLSet(Reset(RL))
  /\ UNCHANGED <<now, maxRequestsPerMinute, maxRequestsPerSecond, maxWeight,
                 secTimerDue, minTimerDue, rl_created, rl_nextArrival>>
  /\ UNCHANGED rlOthers

RLNext ==
  \/ RL_ExecuteRequest \/ RL_PermissionWake \/ RL_FnSettles \/ RL_RetryWake
  \/ RL_CooldownWake \/ RL_SecondTimer \/ RL_MinuteTimer \/ RL_Advance

\* new BinanceRateLimitManager(options) at time now
RLInitWith(setups, gaps) ==
  /\ \E o \in setups :
       /\ now = o.at
       /\ maxRequestsPerMinute = o.maxRequestsPerMinute
       /\ maxRequestsPerSecond = o.maxRequestsPerSecond
       /\ maxWeight = o.maxWeight
  /\ requestQueue = <<>>
  /\ isProcessing = FALSE
  /\ lastRequestTime = 0
  /\ currentWeight = 0
  /\ requestsThisMinute = 0
  /\ requestsThisSecond = 0
  /\ backoffMultiplier = 1000
  /\ lastRateLimitTime = 0
  /\ rateLimitHits = 0
  /\ rl_pc = "idle"
  /\ rl_req = NoReq
  /\ wp_now = 0
  /\ rl_wake = 0
  /\ rl_attempt = 0
  /\ secTimerDue = now + 1000
  /\ minTimerDue = now + 60000
  /\ rl_created = 0
  /\ rl_nextArrival \in { now + g : g \in gaps }
  /\ permit = NoPermit
  /\ grantLog = <<>>
  /\ rl_last = NoEnd
  /\ rl_settled = [i \in 1..MaxRequests |-> "pending"]
  /\ rl_adopted = FALSE
  /\ rl_failures = 0

\* The queue alone: addToQueue(request) with each of the three priorities
\* while the drain loop is busy, and the loop's this.requestQueue.shift()
MaxQueued == 5
AllPriorities == {"high", "normal", "low"}

pqFrame == <<now, maxRequestsPerMinute, maxRequestsPerSecond, maxWeight, isProcessing,
             lastRequestTime, currentWeight, requestsThisMinute, requestsThisSecond,
             backoffMultiplier, lastRateLimitTime, rateLimitHits, rl_pc, wp_now, rl_wake,
             rl_attempt, secTimerDue, minTimerDue, rl_nextArrival, permit, grantLog,
             rl_last, rl_settled, rl_adopted, rl_failures>>

\* addToQueue(request) of an executeRequest call
PQ_AddToQueue ==
  /\ rl_created < MaxQueued
  /\ \E p \in AllPriorities :
       requestQueue' = AddToQueue(requestQueue, [id |-> rl_created + 1, weight |-> 1,
                                                priority |-> p, createdAt |-> now])
  /\ rl_created' = rl_created + 1
  /\ UNCHANGED <<rl_req, pqFrame>>
  /\ UNCHANGED rlOthers

\* const request = this.requestQueue.shift() at the head of the while loop
PQ_Shift ==
  /\ requestQueue # <<>>
  /\ rl_req' = Head(requestQueue)
  /\ requestQueue' = Tail(requestQueue)
  /\ UNCHANGED <<rl_created, pqFrame>>
  /\ UNCHANGED rlOthers

PQNext == PQ_AddToQueue \/ PQ_Shift

\* the manager's steps, and reset() called at any moment
RLResetNext == RLNext \/ RL_Reset

RLInit == RLInitWith(RLSetups, ArrivalGaps)
RLIdle == RLInitWith({[maxRequestsPerMinute |-> 900, maxRequestsPerSecond |-> 15,
                       maxWeight |-> 5000, at |-> now]}, {0})

(***************************************************************************)
(* Part D.  WorkerManager.processWithWorkers                               *)
(*                                                                         *)
(* A JavaScript object is a record with the set of its property names in   *)
(* `fields`; a property that the object does not have reads as Undefined.  *)
(* this.queue is a PQueue({concurrency: workersCount}): add(fn) calls fn   *)
(* at once while fewer than `concurrency` functions are pending, else it   *)
(* queues fn; when a pending function settles the oldest queued one is     *)
(* called.                                                                 *)
(***************************************************************************)
Undefined == "undefined"
NoOutcome == [kind |-> "none", value |-> Undefined]

\* bound of the model
MaxItems == 4

ItemNames == <<"AAAUSDT", "BBBUSDT", "CCCUSDT", "DDDUSDT", "EEEUSDT">>

\* { success: true, ... } resolved by processingFunction(item)
SuccessPayload(item) ==
  [fields |-> {"success", "symbol"}, success |-> TRUE, symbol |-> item,
   error |-> Undefined]

\* { success: false, error } resolved by processingFunction(item)
FailurePayload(item, message) ==
  [fields |-> {"success", "symbol", "error"}, success |-> FALSE, symbol |-> item,
   error |-> message]

\* return { success: false, error: error.message } of the catch block
CaughtResult(item, message) ==
  [fields |-> {"success", "error"}, success |-> FALSE, symbol |-> Undefined,
   error |-> message]

\* how processingFunction(item) may settle
TaskOutcomes(item) ==
  { [kind |-> "resolved", value |-> SuccessPayload(item)],
    [kind |-> "resolved", value |-> FailurePayload(item, "No klines data received")],
    [kind |-> "rejected", value |-> "database is locked"] }

\* the function given to queue.add settles when processingFunction does
WrappedResult(item, outcome) ==
  IF outcome.kind = "resolved" THEN outcome.value
  ELSE CaughtResult(item, outcome.value)

InFlight(task) == { i \in DOMAIN task : task[i] = "running" }
Queued(task) == { i \in DOMAIN task : task[i] = "queued" }

\* the loop over allResults; every promise of queue.add fulfils, because
\* the wrapped function catches what processingFunction throws
CollectResults(promises) == [i \in DOMAIN promises |-> promises[i]]

\* PQueue starts as many of the oldest queued functions as concurrency allows
StartQueued_NoLimit(task, concurrency) ==
  [i \in DOMAIN task |-> IF task[i] \in {"new", "queued"} THEN "running" ELSE task[i]]

RECURSIVE StartQueued(_, _)
StartQueued(task, concurrency) ==
  LET waiting == { i \in DOMAIN task : task[i] \in {"new", "queued"} }
  IN IF waiting = {} THEN task
     ELSE IF Cardinality(InFlight(task)) >= concurrency
     THEN [i \in DOMAIN task |-> IF task[i] = "new" THEN "queued" ELSE task[i]]
     ELSE LET first == CHOOSE i \in waiting : \A j \in waiting : i <= j
          IN StartQueued([task EXCEPT ![first] = "running"], concurrency)

\* processWithWorkers(items, processingFunction) up to
\* await Promise.allSettled(promises)
WM_Process ==
  /\ wm_pc = "idle"
  /\ wm_task' = StartQueued(wm_task, workersCount)
  /\ wm_pc' = "waiting"
  /\ UNCHANGED <<workersCount, wm_items, wm_outcome, wm_promises, wm_results>>
  /\ UNCHANGED wmOthers

\* processingFunction(item) settles for one running item; its promise of
\* queue.add fulfils and the queue starts the next function
WM_TaskSettles ==
  /\ wm_pc = "waiting"
  /\ \E i \in InFlight(wm_task) :
       \E outcome \in TaskOutcomes(wm_items[i]) :
         /\ wm_outcome' = [wm_outcome EXCEPT ![i] = outcome]
         /\ wm_promises' = [wm_promises EXCEPT ![i] = WrappedResult(wm_items[i], outcome)]
         /\ wm_task' = StartQueued([wm_task EXCEPT ![i] = "settled"], workersCount)
  /\ UNCHANGED <<workersCount, wm_items, wm_pc, wm_results>>
  /\ UNCHANGED wmOthers

\* Promise.allSettled(promises) resolves; the results are gathered
WM_Return ==
  /\ wm_pc = "waiting"
  /\ \A i \in DOMAIN wm_task : wm_task[i] = "settled"
  /\ wm_results' = CollectResults(wm_promises)
  /\ wm_pc' = "returned"
  /\ UNCHANGED <<workersCount, wm_items, wm_task, wm_outcome, wm_promises>>
  /\ UNCHANGED wmOthers

WMNext == WM_Process \/ WM_TaskSettles \/ WM_Return

\* a promise of queue.add that has not settled: no field is set
Pending ==
  [fields |-> {}, success |-> FALSE, symbol |-> Undefined, error |-> Undefined]

\* new WorkerManager(workersCount) and the items of a call
WMInitWith(counts, lengths) ==
  /\ workersCount \in counts
  /\ \E n \in lengths : wm_items = SubSeq(ItemNames, 1, n)
  /\ wm_pc = "idle"
  /\ wm_task = [i \in DOMAIN wm_items |-> "new"]
  /\ wm_outcome = [i \in DOMAIN wm_items |-> NoOutcome]
  /\ wm_promises = [i \in DOMAIN wm_items |-> Pending]
  /\ wm_results = <<>>

WMInit == WMInitWith({1, 2, 3, 10}, 0..MaxItems)
WMIdle == WMInitWith({10}, {0})

(***************************************************************************)
(* Part E.  KlineCollector: queueSaveKlines, processSaveQueue,             *)
(* saveKlinesSync, collectSymbolKlines                                     *)
(*                                                                         *)
(* A list of candles is a sequence of runs <<lo, hi, data>>: the candles   *)
(* with open times lo..hi (in minutes) and the prices `data`.  The rows of *)
(* historical_klines are kept as runs too: <<symbol_id, lo, hi, data>> is  *)
(* the rows of symbol_id with open_time lo..hi and the prices `data`.      *)
(***************************************************************************)
\* bounds of the model
MaxCalls == 3
MaxDbFailures == 1

\* saveKlinesSync(symbolId, klines, batchSize = 500)
batchSize == 500

\* the lists of candles that are saved: the 2880 candles of the test, a
\* list of 600 for another symbol, and a short list for that symbol with
\* other prices for some of the same open times, one open time held twice
Batches ==
  << [symbolId |-> 1, klines |-> <<<<1, 2880, "a">>>>],
     [symbolId |-> 2, klines |-> <<<<1, 600, "a">>>>],
     [symbolId |-> 2, klines |-> <<<<599, 601, "b">>, <<601, 601, "a">>>>] >>

RECURSIVE KlinesLength(_)
\* klines.length
KlinesLength(klines) ==
  IF klines = <<>> THEN 0
  ELSE (Head(klines)[2] - Head(klines)[1] + 1) + KlinesLength(Tail(klines))

RECURSIVE OpenTimes(_)
\* the distinct open times of a list of candles
OpenTimes(klines) ==
  IF klines = <<>> THEN {}
  ELSE (Head(klines)[1] .. Head(klines)[2]) \cup OpenTimes(Tail(klines))

\* the table holds a row <<symbolId, t, ...>>
HasRow(store, symbolId, t) ==
  \E r \in store : r[1] = symbolId /\ r[2] <= t /\ t <= r[3]

RECURSIVE Merge(_)
\* one run for rows of the same symbol and data with adjoining open times
\* (the table is bound once, as the element of a singleton)
Merge(store) ==
  LET Joined(st) ==
        LET pairs == { p \in st \X st :
                         p[1][1] = p[2][1] /\ p[1][4] = p[2][4] /\ p[1][3] + 1 = p[2][2] }
        IN IF pairs = {} THEN st
           ELSE LET p == CHOOSE q \in pairs : TRUE
                IN Merge((st \ {p[1], p[2]}) \cup {<<p[1][1], p[1][2], p[2][3], p[1][4]>>})
  IN CHOOSE r \in { Joined(st) : st \in {store} } : TRUE

InsertOrIgnore_Plain(store, symbolId, lo, hi, data) ==
  store \cup {<<symbolId, lo, hi, data>>}

\* INSERT OR IGNORE INTO historical_klines for the candles lo..hi of a run,
\* under UNIQUE(symbol_id, open_time): the rows whose key is free are added
InsertOrIgnore(store, symbolId, lo, hi, data) ==
  LET Inserted(st) ==
        LET Free(t) == ~HasRow(st, symbolId, t)
            starts == { t \in lo..hi : Free(t) /\ (t = lo \/ ~Free(t - 1)) }
            ends == { t \in lo..hi : Free(t) /\ (t = hi \/ ~Free(t + 1)) }
            EndOf(a) == CHOOSE e \in ends : e >= a /\ \A f \in ends : f >= a => e <= f
        IN Merge(st \cup { <<symbolId, a, EndOf(a), data>> : a \in starts })
  IN CHOOSE r \in { Inserted(st) : st \in {store} } : TRUE

RECURSIVE InsertSlice(_, _, _, _, _, _)
\* the stmt.run calls for batch = klines.slice(from, to), `skipped` candles
\* of the list lying before the runs that are left
InsertSlice(store, symbolId, klines, skipped, from, to) ==
  IF klines = <<>> \/ skipped >= to THEN store
  ELSE LET run == Head(klines)
           len == run[2] - run[1] + 1
           first == Max(from, skipped)          \* positions, counted from 0
           last == Min(to, skipped + len) - 1
           store1 == IF first <= last
                     THEN InsertOrIgnore(store, symbolId, run[1] + (first - skipped),
                                         run[1] + (last - skipped), run[3])
                     ELSE store
       IN InsertSlice(store1, symbolId, Tail(klines), skipped + len, from, to)

MayStartDrain_NoFlag(saving, queue) == queue # <<>>

\* guard of processSaveQueue
MayStartDrain(saving, queue) == ~(saving \/ queue = <<>>)

NextTask_Last(queue) == queue[Len(queue)]

\* this.saveQueue.shift()
NextTask(queue) == Head(queue)

RestOfQueue(queue) ==
  SelectSeq(queue, LAMBDA c : c # NextTask(queue))

LoopContinues_Never(queue) == FALSE

\* while (this.saveQueue.length > 0)
LoopContinues(queue) == queue # <<>>

HasNextSlice_Never(klines, i) == FALSE

\* i + batchSize < klines.length: another slice follows
HasNextSlice(klines, i) == i + batchSize < KlinesLength(klines)

NoCall == [via |-> "none", batch |-> 0, pc |-> "done", promise |-> "none",
           result |-> "none", order |-> 0, writeFailed |-> FALSE]

\* processSaveQueue() up to its first await: past the guard it sets the
\* flag and takes the first task
ProcessSaveQueue(st) ==
  IF MayStartDrain(st.saving, st.queue)
  THEN [st EXCEPT !.saving = TRUE,
                  !.queue = RestOfQueue(st.queue),
                  !.loops = Append(st.loops, [pc |-> "begin", call |-> NextTask(st.queue),
                                              i |-> 0])]
  ELSE st

SQ == [queue |-> saveQueue, saving |-> isSaving, calls |-> sq_calls, loops |-> sq_loops]

SQSet(st) ==
  /\ saveQueue' = st.queue
  /\ isSaving' = st.saving
  /\ sq_calls' = st.calls
  /\ sq_loops' = st.loops

\* queueSaveKlines(symbolId, klines, symbol, workerId) by call c
QueueSaveKlines(st, c) ==
  LET order == Cardinality({ d \in DOMAIN st.calls : st.calls[d].order > 0 }) + 1
  IN ProcessSaveQueue([st EXCEPT !.queue = Append(st.queue, c),
                                 !.calls[c].pc = "queued",
                                 !.calls[c].promise = "pending",
                                 !.calls[c].order = order])

Settle_RejectQueue(st, c, how) ==
  [st EXCEPT !.queue = IF how = "rejected" THEN <<>> ELSE st.queue,
             !.calls = [d \in DOMAIN st.calls |->
                          IF d = c \/ (how = "rejected" /\ st.calls[d].pc = "queued")
                          THEN [st.calls[d] EXCEPT !.pc = "done", !.promise = how]
                          ELSE st.calls[d]]]

\* saveTask.resolve() / saveTask.reject(error), and the rest of
\* collectSymbolKlines when it is the caller
Settle(st, c, how) ==
  [st EXCEPT !.calls[c].pc = "done",
             !.calls[c].promise = how,
             !.calls[c].result = IF st.calls[c].via = "collectSymbolKlines"
                                 THEN (IF how = "resolved" THEN "success" ELSE "failure")
                                 ELSE "none"]

RemoveAt(seq, k) == SubSeq(seq, 1, k - 1) \o SubSeq(seq, k + 1, Len(seq))

\* queueSaveKlines(...) is called with one of the lists
SQ_QueueSaveKlines ==
  /\ Len(sq_calls) < MaxCalls
  /\ \E b \in DOMAIN Batches :
       LET c == Len(sq_calls) + 1
           call == [NoCall EXCEPT !.via = "queueSaveKlines", !.batch = b]
       IN SQSet(QueueSaveKlines([SQ EXCEPT !.calls = Append(sq_calls, call)], c))
  /\ UNCHANGED <<sq_store, sq_store0, sq_failures>>
  /\ UNCHANGED sqOthers

\* collectSymbolKlines(listing) is called: hasExistingData(symbol_id), and
\* either the early return or the start of collectWithRetry
SQ_CollectSymbolKlines ==
  /\ Len(sq_calls) < MaxCalls
  /\ \E b \in DOMAIN Batches :
       LET call == [NoCall EXCEPT !.via = "collectSymbolKlines", !.batch = b]
           hasExistingData == \E r \in sq_store : r[1] = Batches[b].symbolId
       IN sq_calls' = Append(sq_calls,
                             IF hasExistingData
                             THEN [call EXCEPT !.result = "already_exists"]
                             ELSE [call EXCEPT !.pc = "fetching"])
  /\ UNCHANGED <<saveQueue, isSaving, sq_loops, sq_store, sq_store0, sq_failures>>
  /\ UNCHANGED sqOthers

\* collectWithRetry settles: the candles (they pass validateKlines and are
\* queued), no candles, or the error of the last attempt
SQ_Fetched ==
  /\ \E c \in DOMAIN sq_calls :
       /\ sq_calls[c].pc = "fetching"
       /\ \E got \in {"klines", "no_data", "error"} :
            SQSet(IF got = "klines" THEN QueueSaveKlines(SQ, c)
                  ELSE [SQ EXCEPT !.calls[c].pc = "done", !.calls[c].result = "failure"])
  /\ UNCHANGED <<sq_store, sq_store0, sq_failures>>
  /\ UNCHANGED sqOthers

\* saveKlinesSync: BEGIN IMMEDIATE for the slice at i succeeds
SQ_Begin ==
  /\ \E l \in DOMAIN sq_loops :
       /\ sq_loops[l].pc = "begin"
       /\ sq_loops' = [sq_loops EXCEPT ![l].pc = "write"]
  /\ UNCHANGED <<saveQueue, isSaving, sq_calls, sq_store, sq_store0, sq_failures>>
  /\ UNCHANGED sqOthers

\* BEGIN IMMEDIATE (or a PRAGMA before it) fails: saveKlinesSync throws,
\* processSaveQueue rejects the task and sleeps
SQ_BeginFails ==
  /\ sq_failures < MaxDbFailures
  /\ \E l \in DOMAIN sq_loops :
       /\ sq_loops[l].pc = "begin"
       /\ SQSet(Settle([SQ EXCEPT !.loops[l].pc = "sleep",
                                  !.calls[sq_loops[l].call].writeFailed = TRUE],
                       sq_loops[l].call, "rejected"))
  /\ sq_failures' = sq_failures + 1
  /\ UNCHANGED <<sq_store, sq_store0>>
  /\ UNCHANGED sqOthers

\* the inserts of the slice at i and COMMIT succeed; then the sleep before
\* the next slice, or saveTask.resolve() and the sleep of processSaveQueue
SQ_Commit ==
  /\ \E l \in DOMAIN sq_loops :
       LET loop == sq_loops[l]
           batch == Batches[sq_calls[loop.call].batch]
       IN /\ loop.pc = "write"
          /\ sq_store' = InsertSlice(sq_store, batch.symbolId, batch.klines, 0,
                                     loop.i, loop.i + batchSize)
          /\ SQSet(IF HasNextSlice(batch.klines, loop.i)
                   THEN [SQ EXCEPT !.loops[l].pc = "sliceSleep"]
                   ELSE Settle([SQ EXCEPT !.loops[l].pc = "sleep"], loop.call, "resolved"))
  /\ UNCHANGED <<sq_store0, sq_failures>>
  /\ UNCHANGED sqOthers

\* an insert of the slice or its COMMIT fails: ROLLBACK, saveKlinesSync
\* throws, processSaveQueue rejects the task and sleeps
SQ_WriteFails ==
  /\ sq_failures < MaxDbFailures
  /\ \E l \in DOMAIN sq_loops :
       /\ sq_loops[l].pc = "write"
       /\ SQSet(Settle([SQ EXCEPT !.loops[l].pc = "sleep",
                                  !.calls[sq_loops[l].call].writeFailed = TRUE],
                       sq_loops[l].call, "rejected"))
  /\ sq_failures' = sq_failures + 1
  /\ UNCHANGED <<sq_store, sq_store0>>
  /\ UNCHANGED sqOthers

\* sleep(5) between two slices is over: i += batchSize
SQ_SliceSleepDone ==
  /\ \E l \in DOMAIN sq_loops :
       /\ sq_loops[l].pc = "sliceSleep"
       /\ sq_loops' = [sq_loops EXCEPT ![l].pc = "begin", ![l].i = @ + batchSize]
  /\ UNCHANGED <<saveQueue, isSaving, sq_calls, sq_store, sq_store0, sq_failures>>
  /\ UNCHANGED sqOthers

\* sleep(10) of processSaveQueue is over: the next task, or the end of the
\* loop and isSaving = false
SQ_SleepDone ==
  /\ \E l \in DOMAIN sq_loops :
       /\ sq_loops[l].pc = "sleep"
       /\ IF LoopContinues(saveQueue)
          THEN /\ sq_loops' = [sq_loops EXCEPT ![l] = [pc |-> "begin",
                                                       call |-> NextTask(saveQueue),
                                                       i |-> 0]]
               /\ saveQueue' = RestOfQueue(saveQueue)
               /\ UNCHANGED isSaving
          ELSE /\ sq_loops' = RemoveAt(sq_loops, l)
               /\ isSaving' = FALSE
               /\ UNCHANGED saveQueue
  /\ UNCHANGED <<sq_calls, sq_store, sq_store0, sq_failures>>
  /\ UNCHANGED sqOthers

SQNext ==
  \/ SQ_QueueSaveKlines \/ SQ_CollectSymbolKlines \/ SQ_Fetched
  \/ SQ_Begin \/ SQ_BeginFails \/ SQ_Commit \/ SQ_WriteFails
  \/ SQ_SliceSleepDone \/ SQ_SleepDone

\* new KlineCollector() on a table with the given rows
SQInitWith(stores) ==
  /\ saveQueue = <<>>
  /\ isSaving = FALSE
  /\ sq_calls = <<>>
  /\ sq_loops = <<>>
  /\ sq_store0 \in stores
  /\ sq_store = sq_store0
  /\ sq_failures = 0

SQInit == SQInitWith({ {}, {<<1, 2500, 2500, "z">>} })
SQIdle == SQInitWith({ {} })

(***************************************************************************)
(* Part F.  ListingAnalyzer.saveListingAnalysis                            *)
(*                                                                         *)
(* listing_analysis is the set of the table's rows.  A row's id is given   *)
(* by AUTOINCREMENT; no row is ever deleted, so it is the number of rows   *)
(* after the insert.  A statement is atomic.                               *)
(***************************************************************************)
\* null as an error message, and as a listing date
Null == "null"
NullDate == -1
NoSave == [made |-> FALSE]
MaxRetryCount == 2
SymbolIds == {1, 2}
ListingDates == {100, 200, NullDate}
Statuses == {"analyzed", "no_data", "error"}
ErrorMessages == {Null, "fail"}

RowsOf(table, symbolId) == {r \in table : r.symbol_id = symbolId}

\* INSERT ... ON CONFLICT(symbol_id) DO UPDATE SET retry_count too
Upsert_ResetRetry(table, symbolId, listingDate, status, errorMessage, date) ==
  (table \ RowsOf(table, symbolId)) \cup
    {[id |-> IF RowsOf(table, symbolId) = {} THEN Cardinality(table) + 1
             ELSE (CHOOSE r \in RowsOf(table, symbolId) : TRUE).id,
      symbol_id |-> symbolId, listing_date |-> listingDate,
      data_status |-> status, error_message |-> errorMessage,
      analysis_date |-> date, retry_count |-> 0]}

\* INSERT INTO listing_analysis (symbol_id, listing_date, data_status,
\* error_message, analysis_date) VALUES (...) ON CONFLICT(symbol_id) DO
\* UPDATE SET the four columns from the excluded row
Upsert(table, symbolId, listingDate, status, errorMessage, date) ==
  IF RowsOf(table, symbolId) = {}
  THEN table \cup
         {[id |-> Cardinality(table) + 1,
           symbol_id |-> symbolId, listing_date |-> listingDate,
           data_status |-> status, error_message |-> errorMessage,
           analysis_date |-> date, retry_count |-> 0]}
  ELSE {IF r.symbol_id = symbolId
        THEN [r EXCEPT !.listing_date = listingDate,
                       !.data_status = status,
                       !.error_message = errorMessage,
                       !.analysis_date = date]
        ELSE r : r \in table}

\* UPDATE listing_analysis SET retry_count = retry_count + 1 WHERE id = ?
IncrementRetry(table, id) ==
  {IF r.id = id THEN [r EXCEPT !.retry_count = r.retry_count + 1] ELSE r :
     r \in table}

\* saveListingAnalysis(symbolId, listingDate, status, errorMessage)
SaveListingAnalysis(symbolId, listingDate, status, errorMessage) ==
  /\ listing_analysis' =
       Upsert(listing_analysis, symbolId, listingDate, status, errorMessage, now)
  /\ la_last' = [la_last EXCEPT ![symbolId] =
       [made |-> TRUE, listingDate |-> listingDate, status |-> status,
        errorMessage |-> errorMessage,
        hadRow |-> RowsOf(listing_analysis, symbolId) # {},
        retryBefore |->
          IF RowsOf(listing_analysis, symbolId) = {} THEN 0
          ELSE (CHOOSE r \in RowsOf(listing_analysis, symbolId) : TRUE).retry_count]]
  /\ la_since' = [la_since EXCEPT ![symbolId] = 0]

LA_SaveListingAnalysis ==
  \E symbolId \in SymbolIds, listingDate \in ListingDates,
     status \in Statuses, errorMessage \in ErrorMessages :
    /\ SaveListingAnalysis(symbolId, listingDate, status, errorMessage)
    /\ UNCHANGED laOthers

\* ListingAnalysisModel.incrementRetryCount(id)
LA_IncrementRetryCount ==
  \E r \in listing_analysis :
    /\ r.retry_count < MaxRetryCount
    /\ listing_analysis' = IncrementRetry(listing_analysis, r.id)
    /\ la_since' = [la_since EXCEPT ![r.symbol_id] = @ + 1]
    /\ UNCHANGED la_last
    /\ UNCHANGED laOthers

LANext == LA_SaveListingAnalysis \/ LA_IncrementRetryCount

\* the table after initializeDatabase
LAInit ==
  /\ listing_analysis = {}
  /\ la_last = [s \in SymbolIds |-> NoSave]
  /\ la_since = [s \in SymbolIds |-> 0]

LAIdle == LAInit

(***************************************************************************)
(* Part G.  ListingAnalyzer.analyzeSymbolListing and determineListingDate  *)
(*                                                                         *)
(* listingAnalyzer.js defines the class twice.  dl_copy = 1 is the first   *)
(* definition (exchange metadata, daily candles, hourly refinement),       *)
(* dl_copy = 2 the second (minute candles, search for older candles,       *)
(* hourly and minute refinement).  A candle is [openTime, open, volume],   *)
(* open and volume being the numbers parseFloat gives.  A reply is         *)
(* [ok, klines]: ok = FALSE is a rejected request.  Open times are counted *)
(* in minutes: DayMs, HourMs and MinuteMs are the code's 24 * 60 * 60 *    *)
(* 1000, 60 * 60 * 1000 and 60 * 1000 in that unit.                        *)
(***************************************************************************)
AnalyzeMaxRetries == 2
DayMs == 1440
HourMs == 60
MinuteMs == 1
FirstDay == 144000
OnboardDate == 987654321
TheSymbol == [id |-> 1, symbol |-> "AAAUSDT"]
MaxKlines == 2

\* JavaScript truthiness of a timestamp or null
Truthy(x) == x # NullDate /\ x # 0

\* volume and open price of a candle: none traded, traded, volume without price
Trades == {<<0, 1>>, <<1, 1>>, <<1, 0>>}
Kline(t, vo) == [openTime |-> t, volume |-> vo[1], open |-> vo[2]]

\* the candle lists of up to MaxKlines candles, `step` apart, from `t0` on
KlineLists(t0, step) ==
  UNION {{[i \in 1..n |-> Kline(t0 + (i - 1) * step, f[i])] :
            f \in [1..n -> Trades]} : n \in 0..MaxKlines}

KlineReplies(lists) ==
  {[ok |-> FALSE, klines |-> <<>>]} \cup {[ok |-> TRUE, klines |-> l] : l \in lists}
NoKlines == [ok |-> FALSE, klines |-> <<>>]

\* volumeNum > 0 && parseFloat(open) > 0 treats volume without price as untraded
HasTrade_VolumeOnly(kline) == kline.volume > 0

\* volumeNum > 0 && parseFloat(open) > 0
HasTrade(kline) == kline.volume > 0 /\ kline.open > 0

\* for (const kline of klines) { if (traded) { ... break; } }: the index of
\* the first candle with trade, 0 if there is none
FirstTraded(klines) ==
  IF \E i \in 1..Len(klines) : HasTrade(klines[i])
  THEN CHOOSE i \in 1..Len(klines) :
         HasTrade(klines[i]) /\ \A j \in 1..(i - 1) : ~HasTrade(klines[j])
  ELSE 0

\* the same loop with parseFloat(minuteKline[5]) > 0 alone
FirstWithVolume(klines) ==
  IF \E i \in 1..Len(klines) : klines[i].volume > 0
  THEN CHOOSE i \in 1..Len(klines) :
         klines[i].volume > 0 /\ \A j \in 1..(i - 1) : klines[j].volume = 0
  ELSE 0

\* listingTimestamp after the scan of the daily candles
DailyListingTimestamp(dailyKlines) ==
  IF FirstTraded(dailyKlines) = 0 THEN NullDate
  ELSE dailyKlines[FirstTraded(dailyKlines)].openTime

\* if (!listingTimestamp) return dailyKlines[0][0]
AfterDailyScan(dailyKlines) ==
  IF Truthy(DailyListingTimestamp(dailyKlines))
  THEN [returns |-> FALSE, value |-> DailyListingTimestamp(dailyKlines)]
  ELSE [returns |-> TRUE, value |-> dailyKlines[1].openTime]

\* a failed hourly request ends determineListingDate with null
HourlyRefined_FailIsNull(listingTimestamp, reply) ==
  IF ~reply.ok THEN NullDate
  ELSE IF FirstTraded(reply.klines) > 0
       THEN reply.klines[FirstTraded(reply.klines)].openTime
       ELSE listingTimestamp

\* try { hourlyKlines = ...; the first hourly candle with trade replaces
\* listingTimestamp } catch { }
HourlyRefined(listingTimestamp, reply) ==
  IF reply.ok /\ Len(reply.klines) > 0 /\ FirstTraded(reply.klines) > 0
  THEN reply.klines[FirstTraded(reply.klines)].openTime
  ELSE listingTimestamp

\* await this.saveListingAnalysis(...) of this attempt throws
SaveThrows(place) == <<dl_attempt, place>> \in db_locked

\* the catch block gives up after the first failed attempt
LastAttempt_First(n) == n = 1

\* if (attempt === maxRetries)
LastAttempt(n) == n = AnalyzeMaxRetries

\* catch (error) of analyzeSymbolListing: after the last attempt the status
\* error is saved and a failure returned, and when that save throws too the
\* call rejects ("rejected"); before it, the loop sleeps and goes on
Catch ==
  IF LastAttempt(dl_attempt)
  THEN IF SaveThrows("catch")
       THEN /\ dl_pc' = "rejected"
            /\ UNCHANGED <<laVars, dl_result>>
       ELSE /\ SaveListingAnalysis(TheSymbol.id, NullDate, "error", "fail")
            /\ dl_result' = [success |-> FALSE, listingDate |-> NullDate,
                             reason |-> "fail"]
            /\ dl_pc' = "done"
  ELSE /\ dl_pc' = "sleep"
       /\ UNCHANGED <<laVars, dl_result>>

\* determineListingDate returned `value` to analyzeSymbolListing, which saves
\* the analysis and returns; a save that throws is caught by the catch block
DL_Returned(value) ==
  /\ dl_return' = [kind |-> "value", value |-> value]
  /\ IF SaveThrows("try")
     THEN Catch
     ELSE /\ dl_pc' = "done"
          /\ IF Truthy(value)
             THEN /\ SaveListingAnalysis(TheSymbol.id, value, "analyzed", Null)
                  /\ dl_result' = [success |-> TRUE, listingDate |-> value,
                                   reason |-> ""]
             ELSE /\ SaveListingAnalysis(TheSymbol.id, NullDate, "no_data", Null)
                  /\ dl_result' = [success |-> FALSE, listingDate |-> NullDate,
                                   reason |-> "no_data"]
  /\ UNCHANGED dl_attempt

\* determineListingDate threw: catch of analyzeSymbolListing
DL_Threw ==
  /\ dl_return' = [kind |-> "throw", value |-> NullDate]
  /\ Catch
  /\ UNCHANGED dl_attempt

\* the first request of determineListingDate
DL_Enter ==
  IF dl_copy = 1
  THEN dl_pc' = "exchangeInfo" /\ dl_requests' = <<>>
  ELSE dl_pc' = "first" /\ dl_requests' = <<"1m">>

\* analyzeSymbolListing(symbol) up to the first await of determineListingDate
DL_AnalyzeSymbolListing ==
  /\ dl_pc = "idle"
  /\ dl_attempt' = 1
  /\ DL_Enter
  /\ UNCHANGED <<dl_meta, dl_daily, dl_hourly, dl_minute, dl_copy, dl_earliest,
                 dl_i, dl_return, dl_result>>
  /\ UNCHANGED <<laVars, dlOthers>>

\* await sleep(Math.pow(2, attempt) * 1000) is over: the next attempt
DL_SleepDone ==
  /\ dl_pc = "sleep"
  /\ dl_attempt' = dl_attempt + 1
  /\ DL_Enter
  /\ dl_meta' = [ok |-> FALSE, found |-> FALSE, onboardDate |-> NullDate]
  /\ dl_daily' = NoKlines /\ dl_hourly' = NoKlines /\ dl_minute' = NoKlines
  /\ dl_earliest' = NullDate /\ dl_i' = 0
  /\ UNCHANGED <<dl_copy, dl_return, dl_result>>
  /\ UNCHANGED <<laVars, dlOthers>>

\* what getExchangeInfo can give for the symbol: a rejection, no entry, an
\* entry without onboardDate, onboardDate 0, an onboardDate
ExchangeInfos ==
  {[ok |-> FALSE, found |-> FALSE, onboardDate |-> NullDate],
   [ok |-> TRUE, found |-> FALSE, onboardDate |-> NullDate],
   [ok |-> TRUE, found |-> TRUE, onboardDate |-> NullDate],
   [ok |-> TRUE, found |-> TRUE, onboardDate |-> 0],
   [ok |-> TRUE, found |-> TRUE, onboardDate |-> OnboardDate]}

\* getExchangeInfo skipped: the daily candles are always asked for
UsesOnboardDate_Never(meta) == FALSE

\* meta && meta.onboardDate && meta.onboardDate !== 0, inside try
UsesOnboardDate(meta) ==
  meta.ok /\ meta.found /\ Truthy(meta.onboardDate) /\ meta.onboardDate # 0

\* getExchangeInfo settled
DL_ExchangeInfo ==
  /\ dl_pc = "exchangeInfo"
  /\ \E meta \in ExchangeInfos :
       /\ dl_meta' = meta
       /\ IF UsesOnboardDate(meta)
          THEN /\ DL_Returned(meta.onboardDate)
               /\ UNCHANGED dl_requests
          ELSE /\ dl_pc' = "daily"
               /\ dl_requests' = Append(dl_requests, "1d")
               /\ UNCHANGED <<laVars, dl_attempt, dl_return, dl_result>>
  /\ UNCHANGED <<dl_daily, dl_hourly, dl_minute, dl_copy, dl_earliest, dl_i>>
  /\ UNCHANGED dlOthers

\* getKlines(symbol, '1d', twoYearsAgo, Date.now(), 1000) settled
DL_Daily ==
  /\ dl_pc = "daily"
  /\ \E reply \in KlineReplies(KlineLists(FirstDay, DayMs)) :
       /\ dl_daily' = reply
       /\ IF ~reply.ok
          THEN DL_Threw /\ UNCHANGED dl_requests
          ELSE IF Len(reply.klines) = 0
          THEN DL_Returned(NullDate) /\ UNCHANGED dl_requests
          ELSE IF AfterDailyScan(reply.klines).returns
          THEN DL_Returned(AfterDailyScan(reply.klines).value)
               /\ UNCHANGED dl_requests
          ELSE /\ dl_pc' = "hourly"
               /\ dl_requests' = Append(dl_requests, "1h")
               /\ UNCHANGED <<laVars, dl_attempt, dl_return, dl_result>>
  /\ UNCHANGED <<dl_meta, dl_hourly, dl_minute, dl_copy, dl_earliest, dl_i>>
  /\ UNCHANGED dlOthers

\* getKlines(symbol, '1h', listingTimestamp - 24 h, listingTimestamp + 48 h,
\* 100) settled
DL_Hourly ==
  /\ dl_pc = "hourly"
  /\ \E reply \in KlineReplies(KlineLists(
                   DailyListingTimestamp(dl_daily.klines) - HourMs, HourMs)) :
       /\ dl_hourly' = reply
       /\ DL_Returned(HourlyRefined(DailyListingTimestamp(dl_daily.klines), reply))
  /\ UNCHANGED <<dl_meta, dl_daily, dl_minute, dl_requests, dl_copy,
                 dl_earliest, dl_i>>
  /\ UNCHANGED dlOthers

\* The second definition of determineListingDate.  Of the lists of minute
\* candles that look for the earliest candle the code reads the length and
\* the first open time only: such a reply is [ok, length, first].
EarliestReplies(first) ==
  {[ok |-> FALSE, length |-> 0, first |-> NullDate],
   [ok |-> TRUE, length |-> 0, first |-> NullDate]}
    \cup {[ok |-> TRUE, length |-> n, first |-> first] : n \in {1, 2, 11}}

OlderSearches == 3
SearchStepMs == 30 * DayMs

\* the request for the hourly candles around earliestTimestamp is made
DL2_AskPrecise ==
  /\ dl_pc' = "precise"
  /\ dl_requests' = Append(dl_requests, "1h")

\* getKlines(symbol, '1m', twoYearsAgo, Date.now(), 1000) settled
DL2_First ==
  /\ dl_pc = "first"
  /\ \E reply \in EarliestReplies(FirstDay) :
       IF ~reply.ok
       THEN DL_Threw /\ UNCHANGED <<dl_requests, dl_earliest, dl_i>>
       ELSE IF reply.length = 0
       THEN DL_Returned(NullDate) /\ UNCHANGED <<dl_requests, dl_earliest, dl_i>>
       ELSE IF reply.length = 1
       THEN /\ DL_Returned(IF Truthy(reply.first) THEN reply.first ELSE NullDate)
            /\ UNCHANGED <<dl_requests, dl_earliest, dl_i>>
       ELSE /\ dl_earliest' = reply.first
            /\ dl_i' = 0
            /\ IF reply.length > 10
               THEN dl_pc' = "older" /\ dl_requests' = Append(dl_requests, "1m")
               ELSE DL2_AskPrecise
            /\ UNCHANGED <<laVars, dl_attempt, dl_return, dl_result>>
  /\ UNCHANGED <<dl_meta, dl_daily, dl_hourly, dl_minute, dl_copy>>
  /\ UNCHANGED dlOthers

\* getKlines(symbol, '1m', searchStartTime, earliestTimestamp, 1000) settled
DL2_Older ==
  /\ dl_pc = "older"
  /\ \E reply \in EarliestReplies(dl_earliest - SearchStepMs) :
       IF ~reply.ok \/ reply.length = 0 \/ reply.length = 1
       THEN DL2_AskPrecise /\ UNCHANGED dl_earliest
       ELSE /\ dl_earliest' = reply.first
            /\ dl_pc' = "olderSleep"
            /\ UNCHANGED dl_requests
  /\ UNCHANGED <<dl_attempt, dl_meta, dl_daily, dl_hourly, dl_minute, dl_copy,
                 dl_i, dl_return, dl_result>>
  /\ UNCHANGED <<laVars, dlOthers>>

\* await sleep(100) is over: i++ and the loop test
DL2_OlderSleepDone ==
  /\ dl_pc = "olderSleep"
  /\ dl_i' = dl_i + 1
  /\ IF dl_i + 1 < OlderSearches
     THEN dl_pc' = "older" /\ dl_requests' = Append(dl_requests, "1m")
     ELSE DL2_AskPrecise
  /\ UNCHANGED <<dl_attempt, dl_meta, dl_daily, dl_hourly, dl_minute, dl_copy,
                 dl_earliest, dl_return, dl_result>>
  /\ UNCHANGED <<laVars, dlOthers>>

\* if (!actualListingTimestamp) actualListingTimestamp = earliestTimestamp
ActualOrEarliest(actualListingTimestamp, earliestTimestamp) ==
  IF Truthy(actualListingTimestamp) THEN actualListingTimestamp
  ELSE earliestTimestamp

\* actualListingTimestamp when the loop over preciseKlines reaches its first
\* candle with trade, null when it has none
PreciseTimestamp(reply) ==
  IF reply.ok /\ Len(reply.klines) > 1 /\ FirstTraded(reply.klines) > 0
  THEN reply.klines[FirstTraded(reply.klines)].openTime
  ELSE NullDate

\* try { minuteKlines = ...; the first minute candle with volume replaces
\* actualListingTimestamp } catch { }
MinuteRefined(actualListingTimestamp, reply) ==
  IF reply.ok /\ Len(reply.klines) > 1 /\ FirstWithVolume(reply.klines) > 0
  THEN reply.klines[FirstWithVolume(reply.klines)].openTime
  ELSE actualListingTimestamp

\* getKlines(symbol, '1h', earliestTimestamp - 7 d, earliestTimestamp + 7 d,
\* 500) settled
DL2_Precise ==
  /\ dl_pc = "precise"
  /\ \E reply \in KlineReplies(KlineLists(dl_earliest - HourMs, HourMs)) :
       /\ dl_hourly' = reply
       /\ IF Truthy(PreciseTimestamp(reply))
          THEN /\ dl_pc' = "minute"
               /\ dl_requests' = Append(dl_requests, "1m")
               /\ UNCHANGED <<laVars, dl_attempt, dl_return, dl_result>>
          ELSE /\ DL_Returned(ActualOrEarliest(NullDate, dl_earliest))
               /\ UNCHANGED dl_requests
  /\ UNCHANGED <<dl_meta, dl_daily, dl_minute, dl_copy, dl_earliest, dl_i>>
  /\ UNCHANGED dlOthers

\* getKlines(symbol, '1m', openTime - 1 h, openTime + 1 h, 120) settled
DL2_Minute ==
  /\ dl_pc = "minute"
  /\ \E reply \in KlineReplies(KlineLists(
                   PreciseTimestamp(dl_hourly) - MinuteMs, MinuteMs)) :
       /\ dl_minute' = reply
       /\ DL_Returned(ActualOrEarliest(
            MinuteRefined(PreciseTimestamp(dl_hourly), reply), dl_earliest))
  /\ UNCHANGED <<dl_meta, dl_daily, dl_hourly, dl_requests, dl_copy,
                 dl_earliest, dl_i>>
  /\ UNCHANGED dlOthers

DLNext ==
  \/ DL_AnalyzeSymbolListing \/ DL_SleepDone
  \/ DL_ExchangeInfo \/ DL_Daily \/ DL_Hourly
  \/ DL2_First \/ DL2_Older \/ DL2_OlderSleepDone \/ DL2_Precise \/ DL2_Minute

\* before analyzeSymbolListing(symbol) is called
DLInitWith(copies) ==
  /\ dl_pc = "idle"
  /\ dl_attempt = 0
  /\ dl_meta = [ok |-> FALSE, found |-> FALSE, onboardDate |-> NullDate]
  /\ dl_daily = NoKlines /\ dl_hourly = NoKlines /\ dl_minute = NoKlines
  /\ dl_requests = <<>>
  /\ dl_copy \in copies
  /\ dl_earliest = NullDate
  /\ dl_i = 0
  /\ dl_return = [kind |-> "none", value |-> NullDate]
  /\ dl_result = [success |-> FALSE, listingDate |-> NullDate, reason |-> ""]

DLInit == DLInitWith({1, 2})
DLIdle == DLInitWith({1})

(***************************************************************************)
(* Part K.  The listing_analysis writes that throw                         *)
(*                                                                         *)
(* db.run of saveListingAnalysis rejects when the database is locked or    *)
(* closed.  Which of the writes of one analyzeSymbolListing call throw is  *)
(* fixed before the call: the write in the try block of attempt 1 or 2,    *)
(* the write in the catch block of the last attempt.                       *)
(***************************************************************************)
SavePoints == {<<1, "try">>, <<2, "try">>, <<2, "catch">>}

DBInit == db_locked \in SUBSET SavePoints
\* every write succeeds
DBIdle == db_locked = {}

(***************************************************************************)
(* Part L.  ListingAnalyzer.analyzeListingDates, run after run             *)
(*                                                                         *)
(* One run selects the symbols with getSymbolsForAnalysis and hands each   *)
(* to analyzeSymbolListing, which ends by recording analyzed, no_data or   *)
(* error for it.  Every symbol of SymbolIds is active and quoted in USDT.  *)
(* The next run starts when every symbol of the run has been analysed.     *)
(***************************************************************************)
MaxRuns == 5
RetryLimit == 3

\* la.id IS NULL OR (la.data_status = 'error' AND la.retry_count < 3)
Selectable(table, symbolId) ==
  \/ RowsOf(table, symbolId) = {}
  \/ \E r \in RowsOf(table, symbolId) :
       r.data_status = "error" /\ r.retry_count < RetryLimit

\* getSymbolsForAnalysis()
GetSymbolsForAnalysis(table) == {s \in SymbolIds : Selectable(table, s)}

\* analyzeListingDates() up to the start of the workers
AR_AnalyzeListingDates ==
  /\ ar_pending = {}
  /\ ar_runs < MaxRuns
  /\ ar_runs' = ar_runs + 1
  /\ ar_pending' = GetSymbolsForAnalysis(listing_analysis)
  /\ UNCHANGED <<ar_failed, laVars, arOthers>>

\* analyzeSymbolListing(symbol) of the run found a listing date
AR_Analyzed ==
  \E s \in ar_pending, listingDate \in ListingDates \ {NullDate} :
    /\ SaveListingAnalysis(s, listingDate, "analyzed", Null)
    /\ ar_pending' = ar_pending \ {s}
    /\ UNCHANGED <<ar_runs, ar_failed, arOthers>>

\* analyzeSymbolListing(symbol) of the run found no listing date
AR_NoData ==
  \E s \in ar_pending :
    /\ SaveListingAnalysis(s, NullDate, "no_data", Null)
    /\ ar_pending' = ar_pending \ {s}
    /\ UNCHANGED <<ar_runs, ar_failed, arOthers>>

\* analyzeSymbolListing(symbol) of the run failed in both attempts
AR_Error ==
  \E s \in ar_pending :
    /\ SaveListingAnalysis(s, NullDate, "error", "fail")
    /\ ar_pending' = ar_pending \ {s}
    /\ ar_failed' = [ar_failed EXCEPT ![s] = @ + 1]
    /\ UNCHANGED <<ar_runs, arOthers>>

ARNext == AR_AnalyzeListingDates \/ AR_Analyzed \/ AR_NoData \/ AR_Error

\* before the first run
ARInit ==
  /\ ar_runs = 0
  /\ ar_pending = {}
  /\ ar_failed = [s \in SymbolIds |-> 0]

ARIdle == ARInit

(***************************************************************************)
(* Part H.  BinanceRateLimitManager: the writes of backoffMultiplier       *)
(*                                                                         *)
(* backoffMultiplier is written by processResponseHeaders, by the success  *)
(* path of executeWithRetry, by handleRateLimitError and by reset.  The    *)
(* actions are calls of these on a manager with an empty queue; bm_call    *)
(* keeps the multiplier before the call (m0) and, for processResponseHeaders, *)
(* the multiplier and currentWeight it left (m1, cw1).                     *)
(***************************************************************************)
MaxHits == 2
\* parseInt(headers['x-mbx-used-weight-1m']) || 0: no header, below 50 %,
\* between, above 80 % of maxWeight 5000
UsedWeights == {0, 2000, 3000, 4500}

NoBackoffCall == [op |-> "none", usedWeight |-> 0, m0 |-> 1000, m1 |-> 1000, cw1 |-> 0]

HeadersCall(st, usedWeight) ==
  [op |-> "processResponseHeaders", usedWeight |-> usedWeight, m0 |-> st.backoff,
   m1 |-> ProcessResponseHeaders(st, usedWeight).backoff,
   cw1 |-> ProcessResponseHeaders(st, usedWeight).cw]

\* if (this.backoffMultiplier > 1.0) this.backoffMultiplier =
\*   Math.max(1.0, this.backoffMultiplier * 0.9)
SuccessDecay(m) == IF m > 1000 THEN Max(1000, (m * 9) \div 10) ELSE m

\* processResponseHeaders(headers)
BM_ProcessResponseHeaders ==
  /\ \E usedWeight \in UsedWeights :
       /\ RLSet(ProcessResponseHeaders(RL, usedWeight))
       /\ bm_call' = HeadersCall(RL, usedWeight)
  /\ UNCHANGED <<now, maxRequestsPerMinute, maxRequestsPerSecond, maxWeight,
                 secTimerDue, minTimerDue, rl_created, rl_nextArrival>>
  /\ UNCHANGED bmOthers

\* executeWithRetry after request.fn() resolved: the headers, if the result
\* has any, then the decay of the multiplier
BM_RequestSucceeds ==
  /\ \E headers \in BOOLEAN, usedWeight \in UsedWeights :
       LET st1 == IF headers THEN ProcessResponseHeaders(RL, usedWeight) ELSE RL
       IN /\ RLSet([st1 EXCEPT !.backoff = SuccessDecay(st1.backoff)])
          /\ bm_call' = IF headers THEN HeadersCall(RL, usedWeight)
                        ELSE [NoBackoffCall EXCEPT !.op = "success",
                                                   !.m0 = RL.backoff,
                                                   !.m1 = RL.backoff]
  /\ UNCHANGED <<now, maxRequestsPerMinute, maxRequestsPerSecond, maxWeight,
                 secTimerDue, minTimerDue, rl_created, rl_nextArrival>>
  /\ UNCHANGED bmOthers

\* handleRateLimitError(error) up to its sleep
BM_HandleRateLimitError ==
  /\ rateLimitHits < MaxHits
  /\ RLSet([RL EXCEPT !.hits = RL.hits + 1,
                      !.lastRL = now,
                      !.backoff = BackoffAfterRateLimit(RL.backoff)])
  /\ bm_call' = [NoBackoffCall EXCEPT !.op = "handleRateLimitError",
                                      !.m0 = RL.backoff, !.m1 = RL.backoff]
  /\ UNCHANGED <<now, maxRequestsPerMinute, maxRequestsPerSecond, maxWeight,
                 secTimerDue, minTimerDue, rl_created, rl_nextArrival>>
  /\ UNCHANGED bmOthers

\* reset()
BM_Reset ==
  /\ RLSet(Reset(RL))
  /\ bm_call' = [NoBackoffCall EXCEPT !.op = "reset", !.m0 = RL.backoff,
                                      !.m1 = RL.backoff]
  /\ UNCHANGED <<now, maxRequestsPerMinute, maxRequestsPerSecond, maxWeight,
                 secTimerDue, minTimerDue, rl_created, rl_nextArrival>>
  /\ UNCHANGED bmOthers

BMNext ==
  \/ BM_ProcessResponseHeaders \/ BM_RequestSucceeds
  \/ BM_HandleRateLimitError \/ BM_Reset

BMIdle == bm_call = NoBackoffCall

(***************************************************************************)
(* Part I.  request() called by several workers on the one BinanceClient   *)
(* that getBinanceClient() hands out.  Each caller runs request() up to    *)
(* the moment axios.get is called; rateLimitDelay and lastRequestTime are  *)
(* the client's, shared by the callers.                                    *)
(***************************************************************************)
MaxCallers == 3
MaxTicks == 2
Callers == 1..MaxCallers
NotSent == 0 - 1
\* how long after the previous event a worker may call request()
CallGaps == {100, 300}

\* what the rest of request() leaves alone here
erFrame == <<rq_pc, retryAttempts, rateLimitDelay, attempt, rq_wake, attemptStart,
             lastReply, errorInfo, rq_slept, rq_result>>

\* this.lastRequestTime = Date.now(), enforceRateLimit returns and request()
\* calls axios.get
ER_Send(c) ==
  /\ clientLastRequestTime' = now
  /\ er_sentAt' = [er_sentAt EXCEPT ![c] = now]
  /\ er_pc' = [er_pc EXCEPT ![c] = "sent"]

\* a worker calls request(): enforceRateLimit up to its sleep, or through
ER_Request ==
  /\ \E c \in Callers :
       /\ er_pc[c] = "idle"
       /\ LET timeSinceLastRequest == now - clientLastRequestTime
          IN IF timeSinceLastRequest < rateLimitDelay
             THEN /\ er_pc' = [er_pc EXCEPT ![c] = "sleep"]
                  /\ er_wake' = [er_wake EXCEPT ![c] =
                                   now + (rateLimitDelay - timeSinceLastRequest)]
                  /\ UNCHANGED <<clientLastRequestTime, er_sentAt>>
             ELSE ER_Send(c) /\ UNCHANGED er_wake
  /\ UNCHANGED <<now, er_ticks, erFrame>>
  /\ UNCHANGED erOthers

\* the sleep of enforceRateLimit is over: nothing is tested again
ER_SleepDone ==
  /\ \E c \in Callers :
       /\ er_pc[c] = "sleep"
       /\ er_wake[c] = now
       /\ ER_Send(c)
       /\ UNCHANGED er_wake
  /\ UNCHANGED <<now, er_ticks, erFrame>>
  /\ UNCHANGED erOthers

\* sleeps that are pending
Sleepers == {c \in Callers : er_pc[c] = "sleep"}

\* time passes: to the next timer that is due, or, before that, to the
\* moment a worker calls next
ER_Advance ==
  /\ \A c \in Sleepers : er_wake[c] > now
  /\ \E c \in Callers : er_pc[c] # "sent"
  /\ \/ /\ \E c \in Sleepers :
             /\ \A d \in Sleepers : er_wake[c] <= er_wake[d]
             /\ now' = er_wake[c]
        /\ UNCHANGED er_ticks
     \/ /\ er_ticks < MaxTicks
        /\ \E c \in Callers : er_pc[c] = "idle"
        /\ \E g \in CallGaps :
             /\ \A d \in Sleepers : now + g < er_wake[d]
             /\ now' = now + g
        /\ er_ticks' = er_ticks + 1
  /\ UNCHANGED <<clientLastRequestTime, er_pc, er_wake, er_sentAt, erFrame>>
  /\ UNCHANGED erOthers

ERNext == ER_Request \/ ER_SleepDone \/ ER_Advance

\* no worker has called request() yet
ERInit ==
  /\ er_pc = [c \in Callers |-> "idle"]
  /\ er_wake = [c \in Callers |-> 0]
  /\ er_sentAt = [c \in Callers |-> NotSent]
  /\ er_ticks = 0

ERIdle == ERInit

(***************************************************************************)
(* Part J.  KlineCollector.waitForAllSaves, called while batches are       *)
(* enqueued and the save queue drains                                      *)
(***************************************************************************)
\* this.saveQueue.length > 0 || this.isSaving
SavesOutstanding(queue, saving) == queue # <<>> \/ saving

\* one test of the while condition: sleep(100), or the return
WS_Test ==
  ws_pc' = IF SavesOutstanding(saveQueue, isSaving) THEN "sleeping" ELSE "returned"

\* waitForAllSaves() is called
WS_WaitForAllSaves ==
  /\ ws_pc = "idle"
  /\ WS_Test
  /\ UNCHANGED wsOthers

\* sleep(100) is over: the condition is tested again
WS_SleepDone ==
  /\ ws_pc = "sleeping"
  /\ WS_Test
  /\ UNCHANGED wsOthers

WSNext == WS_WaitForAllSaves \/ WS_SleepDone

\* the steps of the drain loop and of saveKlinesSync
DrainNext ==
  \/ SQ_Begin \/ SQ_BeginFails \/ SQ_Commit \/ SQ_WriteFails
  \/ SQ_SliceSleepDone \/ SQ_SleepDone

\* batches are enqueued, the loop drains them, waitForAllSaves polls
SavesNext == SQ_QueueSaveKlines \/ DrainNext \/ WSNext

WSInit == ws_pc = "idle"
WSIdle == WSInit

(***************************************************************************)
(* Properties of getHistoricalKlines                                       *)
(***************************************************************************)
RECURSIVE TotalLen(_)
\* allKlines.length
TotalLen(list) == IF list = <<>> THEN 0 ELSE SliceLen(Head(list)) + TotalLen(Tail(list))

\* number of candles of the series with startTime <= openTime <= endTime
WindowCount == SliceLen(ContractPage(startTime, endTime, server.n + 1))

\* no two entries of the list have the same openTime
NoDuplicateOpenTime(list) ==
  \A i, j \in DOMAIN list :
     i < j => \/ OpenTime(list[i][2]) < OpenTime(list[j][1])
              \/ OpenTime(list[j][2]) < OpenTime(list[i][1])

\* C1: against a server that answers every page request with the first
\* (at most 1000) candles of [startTime, endTime], a completed
\* getHistoricalKlines returns every candle of the window exactly once; for
\* the 48-hour window of 1-minute candles it issues at least 3 requests and
\* returns exactly 2880 candles, no two with the same openTime.
C1_EveryCandleExactlyOnce ==
  (/\ hk_pc = "done" /\ server.mode = "contract"
   /\ ~hk_aborted /\ ~hk_rateLimited /\ iterations < MAX_ITERATIONS)
     => /\ NoDuplicateOpenTime(allKlines)
        /\ TotalLen(allKlines) = WindowCount
        /\ (WindowCount = 2880 => callCount >= 3 /\ TotalLen(allKlines) = 2880)

HKMeasure ==
  2 * iterations + (CASE hk_pc = "idle" -> 0 [] hk_pc = "call" -> 1
                      [] hk_pc = "sleep" -> 2 [] OTHER -> 3)

\* C3: getHistoricalKlines issues at most MAX_ITERATIONS page requests and
\* then returns, whatever the server answers: every step of the loop makes
\* progress towards the cap, and the call returns.
C3_Terminates ==
  /\ [](callCount <= MAX_ITERATIONS /\ iterations = callCount)
  /\ [][HKMeasure' > HKMeasure]_vars
  /\ <>(hk_pc = "done")

\* the cap ends a run whose pages never move the cursor on
C3_Witness ==
  /\ hk_pc = "done" /\ server.mode = "stale" /\ callCount = MAX_ITERATIONS
  /\ currentStartTime < endTime /\ hk_rateLimited

\* C4 as stated: after a rate-limit failure the loop sleeps and then issues
\* the next request with the same cursor, the accumulated candles untouched.
C4_AlwaysResumes ==
  [][hk_pc = "sleep" =>
       /\ hk_pc' = "call" /\ lastCall'.start = lastCall.start
       /\ callCount' = callCount + 1
       /\ allKlines' = allKlines /\ currentStartTime' = currentStartTime]_vars

\* C4 (amended): a rate-limit failure of a page request leads to the sleep
\* with cursor and accumulated candles unchanged; after the sleep the next
\* request is issued with the same cursor, unless the iteration cap has been
\* reached, in which case the call returns what it has accumulated.
C4_ResumeSameCursor ==
  [][/\ (hk_pc = "call" /\ lastCall'.outcome = "rate_limit") =>
           /\ hk_pc' = "sleep"
           /\ allKlines' = allKlines /\ currentStartTime' = currentStartTime
           /\ callCount' = callCount
     /\ hk_pc = "sleep" =>
           /\ allKlines' = allKlines /\ currentStartTime' = currentStartTime
           /\ lastCall.outcome = "rate_limit" /\ lastCall.start = currentStartTime
           /\ IF iterations < MAX_ITERATIONS
              THEN /\ hk_pc' = "call" /\ callCount' = callCount + 1
                   /\ lastCall'.start = lastCall.start
              ELSE hk_pc' = "done" /\ callCount' = callCount]_vars

\* a request issued after a rate-limit wait, with pages already accumulated
C4_Witness ==
  /\ hk_pc = "call" /\ hk_rateLimited /\ lastCall.outcome = "pending"
  /\ Len(allKlines) >= 1 /\ callCount > Len(allKlines) + 1

\* C27: against a server that returns only candles with
\* startTime <= openTime <= endTime of the request, every candle
\* getHistoricalKlines has collected satisfies start <= openTime and
\* closeTime <= end + interval.
C27_CandlesWithinWindow ==
  \A i \in DOMAIN allKlines :
    /\ startTime <= OpenTime(allKlines[i][1])
    /\ CloseTime(allKlines[i][2]) <= endTime + server.step

\* C27 happens: the call returned a list whose last candle opens inside the
\* window and closes after its end
C27_Witness ==
  /\ hk_pc = "done" /\ allKlines # <<>>
  /\ OpenTime(allKlines[Len(allKlines)][2]) <= endTime
  /\ CloseTime(allKlines[Len(allKlines)][2]) > endTime
  /\ startTime > SeriesT0

\* C28: when a page request returns fewer than 1000 candles, all of them are
\* added to the result and no further page request is issued.
C28_ShortPageStops ==
  [][(/\ hk_pc = "call"
      /\ lastCall'.outcome \notin {"rate_limit", "error"}
      /\ SliceLen(RequestedPage(currentStartTime)) > 0
      /\ SliceLen(RequestedPage(currentStartTime)) < MAX_KLINES) =>
        /\ allKlines' = Push(allKlines, RequestedPage(currentStartTime))
        /\ callCount' = callCount
        /\ hk_pc' = "done"]_vars

\* C29: a page request that fails with an error other than a rate-limit
\* error ends the paging: the call returns, with the candles collected so far
\* and without another request.
C29_ErrorKeepsCollected ==
  /\ [][(hk_pc = "call" /\ lastCall'.outcome = "error") =>
          /\ hk_pc' = "done"
          /\ allKlines' = allKlines
          /\ callCount' = callCount]_vars
  /\ [][hk_pc = "done" => allKlines' = allKlines /\ hk_pc' = "done"]_vars

\* C29 happens: the third page request failed after two pages were collected
C29_Witness ==
  /\ hk_pc = "done" /\ hk_aborted /\ lastCall.outcome = "error"
  /\ Len(allKlines) = 2 /\ callCount = 3 /\ ~hk_rateLimited

(***************************************************************************)
(* Properties of request and parseApiError                                 *)
(***************************************************************************)
\* The class section 4.2 gives a failed call: what the reply is, not what
\* axios made of it.
ClaimClass(kind, status, data) ==
  IF kind # "http" THEN "NETWORK_ERROR"
  ELSE IF status = 429 \/ (data.shape = "binance" /\ data.code = 0 - 1003)
  THEN "RATE_LIMIT"
  ELSE IF status >= 500 THEN "SERVER_ERROR"
  ELSE IF status >= 400 THEN "BAD_REQUEST"
  ELSE "NONE"

LastReplyClass ==
  IF lastReply.kind = "none" THEN "NONE"
  ELSE ClaimClass(lastReply.kind, lastReply.status, lastReply.data)

ClaimDelay(class, att) ==
  LET d == Min(Pow2(att) * 1000, 30000)
  IN IF class = "RATE_LIMIT" THEN Max(d, 10000)
     ELSE IF class = "SERVER_ERROR" THEN Max(d, 5000)
     ELSE d

\* C8: after a retryable failure (RATE_LIMIT, SERVER_ERROR, NETWORK_ERROR)
\* on attempt a < retryAttempts the call neither returns nor throws; the
\* next attempt starts only after min(2^a * 1000, 30000) ms, at least 10000
\* after RATE_LIMIT and 5000 after SERVER_ERROR; a successful attempt makes
\* the call return that attempt's data.
C8_WaitThenRetry ==
  /\ (/\ LastReplyClass \in {"RATE_LIMIT", "SERVER_ERROR", "NETWORK_ERROR"}
      /\ lastReply.kind # "setup"
      /\ lastReply.attempt < retryAttempts)
       => /\ rq_pc \in {"backoff", "rateLimit", "http"}
          /\ rq_pc = "backoff" => /\ attempt = lastReply.attempt
                                  /\ rq_wake - lastReply.at
                                       >= ClaimDelay(LastReplyClass, lastReply.attempt)
          /\ rq_pc # "backoff" => /\ attempt = lastReply.attempt + 1
                                  /\ now - lastReply.at
                                       >= ClaimDelay(LastReplyClass, lastReply.attempt)
  /\ (lastReply.kind = "http" /\ LastReplyClass = "NONE")
       => /\ rq_pc = "returned"
          /\ rq_result = [status |-> lastReply.status, data |-> lastReply.data]

\* C9: parseApiError puts every failed call into exactly one of RATE_LIMIT,
\* SERVER_ERROR, NETWORK_ERROR and BAD_REQUEST, by the reply's status and
\* code; the first three are retryable and BAD_REQUEST is not.
C9_FourClasses ==
  pe_info # NoInfo =>
    /\ pe_info.type \in {"RATE_LIMIT", "SERVER_ERROR", "NETWORK_ERROR", "BAD_REQUEST"}
    /\ (pe_error.response \/ pe_error.request) =>
          pe_info.type = ClaimClass(IF pe_error.response THEN "http" ELSE "network",
                                    pe_error.status, pe_error.data)
    /\ pe_info.retryable = (pe_info.type # "BAD_REQUEST")

\* C10: request makes at most retryAttempts attempts; a non-retryable
\* failure (BAD_REQUEST) is raised at once, with no backoff wait; a failure
\* of the last attempt is raised; the call never returns a value from a
\* failed attempt.
C10_RaisesFailures ==
  /\ attempt <= retryAttempts
  /\ (lastReply.kind # "none" /\ LastReplyClass = "BAD_REQUEST")
       => rq_pc = "thrown" /\ now = lastReply.at
  /\ (LastReplyClass # "NONE" /\ lastReply.attempt = retryAttempts)
       => rq_pc = "thrown"
  /\ rq_pc = "returned" => (lastReply.kind = "http" /\ LastReplyClass = "NONE")

\* C11: every HTTP attempt of request(), the first one and each retry, is
\* sent in the step in which an enforceRateLimit() of its own completes
\* (lastRequestTime is stamped with the time of sending); none goes out
\* without one.
C11_AcquireBeforeAttempt ==
  [][rq_pc' = "http" =>
       /\ clientLastRequestTime' = now'
       /\ attemptStart' = now'
       /\ attempt' = IF rq_pc = "rateLimit" THEN attempt
                     ELSE IF rq_pc = "idle" THEN 1 ELSE attempt + 1]_vars

\* C11 happens: a retry has been sent after its own acquisition
C11_Witness ==
  /\ rq_pc = "http"
  /\ attempt >= 2
  /\ clientLastRequestTime = now

(***************************************************************************)
(* Properties of BinanceRateLimitManager                                   *)
(***************************************************************************)
\* C5: waitForPermission(weight) completes only when, just before its
\* increments, currentWeight + weight <= maxWeight, requestsThisSecond <
\* maxRequestsPerSecond, requestsThisMinute < maxRequestsPerMinute and the
\* time since lastRequestTime is at least minIntervalMs * backoffMultiplier;
\* on completion currentWeight has grown by weight, both counters by 1 and
\* lastRequestTime is the current time.
C5_PermissionWithinLimits ==
  [][permit'.n # permit.n =>
       /\ permit'.cw + permit'.weight <= maxWeight
       /\ permit'.rps < maxRequestsPerSecond
       /\ permit'.rpm < maxRequestsPerMinute
       /\ permit'.since * 1000 >= minIntervalMs * permit'.backoff
       /\ currentWeight' = permit'.cw + permit'.weight
       /\ requestsThisSecond' = permit'.rps + 1
       /\ requestsThisMinute' = permit'.rpm + 1
       /\ lastRequestTime' = now]_vars

RECURSIVE WeightSince(_, _)
\* weight of the permissions of log given after time t
WeightSince(log, t) ==
  IF log = <<>> THEN 0
  ELSE (IF Head(log)[1] > t THEN Head(log)[2] ELSE 0) + WeightSince(Tail(log), t)

CountSince(log, t) == Cardinality({ i \in 1..Len(log) : log[i][1] > t })

\* C6: in any rolling 1-second window at most maxRequestsPerSecond
\* permissions are given, and in any rolling minute at most twice maxWeight
\* of weight (the documented approximation of the wall-clock reset allows
\* a burst of twice the nominal rate at a window boundary).  A window with
\* the most permissions ends at a permission, so those windows are checked.
C6_RollingWindows ==
  permit.n > 0 =>
    /\ CountSince(grantLog, permit.at - 1000) <= maxRequestsPerSecond
    /\ WeightSince(grantLog, permit.at - 60000) <= 2 * maxWeight

\* the cooldown the specification asks for after a rate-limit error
ClaimCooldown(error) ==
  IF error.retryAfter >= 0 THEN error.retryAfter * 1000 ELSE 60000

EndedInRateLimit(end) ==
  end.kind = "error" /\ (end.error.status = 429 \/ end.error.code = 0 - 1003)

\* C7: when a request ends in a rate-limit error the backoff multiplier is
\* doubled at once (capped at 5.0) and the drain loop sleeps; until the
\* cooldown (the retry-after header value if there is one, else 60 s) is over
\* no request is granted permission and none is executed.
C7_Cooldown ==
  /\ [][(rl_last' # rl_last /\ EndedInRateLimit(rl_last')) =>
          /\ backoffMultiplier' = Min(5000, 2 * backoffMultiplier)
          /\ permit' = permit
          /\ rl_pc' = "cooldown"]_vars
  /\ [](EndedInRateLimit(rl_last) =>
          /\ permit.at <= rl_last.at \/ permit.at >= rl_last.at + ClaimCooldown(rl_last.error)
          /\ (now < rl_last.at + ClaimCooldown(rl_last.error) => rl_pc = "cooldown"))

\* C7 happens: after a rate-limit error with a retry-after header and its
\* cooldown the next request of the queue has been granted permission
C7_Witness ==
  /\ EndedInRateLimit(rl_last)
  /\ rl_last.error.retryAfter >= 0
  /\ backoffMultiplier = Min(5000, 2 * rl_last.backoff)
  /\ permit.at >= rl_last.at + ClaimCooldown(rl_last.error)
  /\ rl_pc = "exec"

(***************************************************************************)
(* Properties of WorkerManager                                             *)
(***************************************************************************)
Rejected(outcomes) == { i \in DOMAIN outcomes : outcomes[i].kind = "rejected" }

\* C12: processWithWorkers never throws and returns one result per item,
\* results[i] for items[i]: what the task resolved with, and, when exactly
\* one task rejects, for that item a structured failure that names the
\* symbol and the reason.
C12_OneResultPerItem ==
  /\ wm_pc # "thrown"
  /\ wm_pc = "returned" =>
       /\ Len(wm_results) = Len(wm_items)
       /\ \A i \in DOMAIN wm_items :
            wm_outcome[i].kind = "resolved" => wm_results[i] = wm_outcome[i].value
       /\ Cardinality(Rejected(wm_outcome)) = 1 =>
            \A i \in Rejected(wm_outcome) :
              /\ wm_results[i].success = FALSE
              /\ "symbol" \in wm_results[i].fields
              /\ wm_results[i].symbol = wm_items[i]
              /\ wm_results[i].error = wm_outcome[i].value

\* C13: at most workersCount task functions are in flight; a queued item is
\* started only in a step in which an in-flight task completes; and once
\* the call is made every item is eventually started, whatever the outcomes
\* of the other items.
C13_BoundedInFlight ==
  /\ [](Cardinality(InFlight(wm_task)) <= workersCount)
  /\ [][\A i \in DOMAIN wm_task :
          (wm_task[i] = "queued" /\ wm_task'[i] = "running") =>
            \E j \in DOMAIN wm_task : wm_task[j] = "running" /\ wm_task'[j] = "settled"]_vars
  /\ (wm_pc = "waiting") ~> (\A i \in DOMAIN wm_task : wm_task[i] \in {"running", "settled"})

\* C13 happens: all workers are busy, an item has failed, and an item that
\* had to queue is running
C13_Witness ==
  /\ Cardinality(InFlight(wm_task)) = workersCount
  /\ Rejected(wm_outcome) # {}
  /\ \E j \in InFlight(wm_task) : j > workersCount
  /\ Queued(wm_task) # {}

(***************************************************************************)
(* Properties of the save queue of KlineCollector                          *)
(***************************************************************************)
InSave(loop) == loop.pc \in {"begin", "write", "sliceSleep"}
OpenTransactions == { l \in DOMAIN sq_loops : sq_loops[l].pc = "write" }

\* C14: at most one drain loop of the save queue is active, so at most one
\* saveKlinesSync call is in progress and at most one write transaction is
\* open, however the calls of queueSaveKlines interleave with the loop.
C14_SingleDrainLoop ==
  /\ Len(sq_loops) <= 1
  /\ Cardinality({ l \in DOMAIN sq_loops : InSave(sq_loops[l]) }) <= 1
  /\ Cardinality(OpenTransactions) <= 1
  /\ isSaving <=> sq_loops # <<>>

\* C14 happens: batches were queued by other calls while a transaction of
\* the drain loop is open
C14_Witness ==
  /\ OpenTransactions # {}
  /\ Len(saveQueue) >= 2

Enqueued == { c \in DOMAIN sq_calls : sq_calls[c].order > 0 }
SymbolOf(c) == Batches[sq_calls[c].batch].symbolId
KlinesOf(c) == Batches[sq_calls[c].batch].klines

RECURSIVE RowCount(_, _, _, _)
\* number of rows of the table for symbolId with open_time in lo..hi
RowCount(store, symbolId, lo, hi) ==
  IF store = {} THEN 0
  ELSE LET r == CHOOSE q \in store : TRUE
           n == IF r[1] = symbolId THEN Max(0, Min(hi, r[3]) - Max(lo, r[2]) + 1) ELSE 0
       IN n + RowCount(store \ {r}, symbolId, lo, hi)

\* the table holds a row for every open time of the list
Stored(store, symbolId, klines) ==
  \A k \in DOMAIN klines :
    RowCount(store, symbolId, klines[k][1], klines[k][2]) >= klines[k][2] - klines[k][1] + 1

\* no other source of rows for the symbol of call c
OnlySourceOfSymbol(c) ==
  /\ \A d \in Enqueued \ {c} : SymbolOf(d) # SymbolOf(c)
  /\ \A r \in sq_store0 : r[1] # SymbolOf(c)

\* C15: a batch is applied all-or-nothing: when a write of the batch has
\* failed (its promise is rejected) none of its candles is in the table;
\* and when no write fails, batches queued concurrently for different
\* symbols are both in the table in full once they are settled.
C15_AllOrNothing ==
  \A c \in Enqueued :
    /\ (sq_calls[c].promise = "rejected" /\ OnlySourceOfSymbol(c)) =>
         ~\E r \in sq_store : r[1] = SymbolOf(c)
    /\ (sq_failures = 0 /\ sq_calls[c].promise # "pending") =>
         Stored(sq_store, SymbolOf(c), KlinesOf(c))

\* C16: the promise of queueSaveKlines is resolved only when every candle of
\* its batch is committed; so when collectSymbolKlines has returned success
\* after fetching candles, the table holds a row for every distinct open
\* time of them (at least 2880 rows for the 2880 candles of the test).
C16_ResolvedMeansStored ==
  \A c \in DOMAIN sq_calls :
    /\ sq_calls[c].promise = "resolved" => Stored(sq_store, SymbolOf(c), KlinesOf(c))
    /\ sq_calls[c].result = "success" =>
         /\ Stored(sq_store, SymbolOf(c), KlinesOf(c))
         /\ RowCount(sq_store, SymbolOf(c), 0, 1000000)
              >= Cardinality(OpenTimes(KlinesOf(c)))

\* C16 happens: collectSymbolKlines has returned success for the 2880
\* candles of the test
C16_Witness ==
  \E c \in DOMAIN sq_calls :
    /\ sq_calls[c].via = "collectSymbolKlines"
    /\ sq_calls[c].result = "success"
    /\ KlinesLength(KlinesOf(c)) = 2880
    /\ RowCount(sq_store, SymbolOf(c), 0, 1000000) >= 2880

\* the calls whose batch a drain loop is working on
InHand == { sq_loops[l].call : l \in { k \in DOMAIN sq_loops : sq_loops[k].pc # "sleep" } }

\* C17: only the promise of a batch whose own save failed is rejected; the
\* drain loop goes on (a batch that waits is in the queue or in the hands
\* of the loop, and the queue is never left without its loop); and a batch
\* whose writes did not fail is saved and its promise resolved, whether it
\* was queued before or after a failed one.
C17_FailureIsolated ==
  /\ \A c \in Enqueued :
       /\ sq_calls[c].promise = "rejected" => sq_calls[c].writeFailed
       /\ (sq_calls[c].promise # "pending" /\ ~sq_calls[c].writeFailed) =>
            /\ sq_calls[c].promise = "resolved"
            /\ Stored(sq_store, SymbolOf(c), KlinesOf(c))
       /\ sq_calls[c].promise = "pending" =>
            \/ c \in InHand
            \/ \E k \in DOMAIN saveQueue : saveQueue[k] = c
  /\ saveQueue # <<>> => (isSaving /\ sq_loops # <<>>)

\* C17 happens: a batch was rejected, and batches queued before it and
\* after it are resolved
C17_Witness ==
  \E a, b, c \in Enqueued :
    /\ sq_calls[a].order < sq_calls[b].order
    /\ sq_calls[b].order < sq_calls[c].order
    /\ sq_calls[b].promise = "rejected"
    /\ sq_calls[a].promise = "resolved"
    /\ sq_calls[c].promise = "resolved"

\* C18: batches are committed in the order in which they were queued: when
\* the save of a batch has begun (or is over), the save of every batch
\* queued before it has completed or failed.
C18_FifoCommits ==
  \A c, d \in Enqueued :
    (sq_calls[d].order < sq_calls[c].order
       /\ (c \in InHand \/ sq_calls[c].promise # "pending"))
    => sq_calls[d].promise # "pending"

\* C18 happens: the batch queued third is being saved, after two batches
\* that waited in the queue together
C18_Witness ==
  \E c \in InHand :
    /\ sq_calls[c].order = 3
    /\ \A d \in Enqueued \ {c} : sq_calls[d].promise # "pending"
    /\ \E d \in Enqueued : sq_calls[d].order = 2 /\ d > c

\* C19: the table holds at most one row per (symbol_id, open_time); rows
\* are never changed or removed, an insert for a key that is present being
\* a no-op; and the inserts of a slice done a second time change nothing.
C19_UniqueIdempotent ==
  /\ [](\A r, q \in sq_store :
          (r # q /\ r[1] = q[1]) => (r[3] < q[2] \/ q[3] < r[2]))
  /\ [][\A r \in sq_store :
          \E q \in sq_store' :
            q[1] = r[1] /\ q[4] = r[4] /\ q[2] <= r[2] /\ r[3] <= q[3]]_vars
  /\ [][\A l \in DOMAIN sq_loops :
          (sq_loops[l].pc = "write" /\ sq_store' # sq_store) =>
            InsertSlice(sq_store', SymbolOf(sq_loops[l].call), KlinesOf(sq_loops[l].call),
                        0, sq_loops[l].i, sq_loops[l].i + batchSize) = sq_store']_vars

\* C19 happens: candles were saved for open times that had rows with other
\* prices; the old rows are as they were, the new open time was added
C19_Witness ==
  /\ <<2, 1, 600, "a">> \in sq_store
  /\ <<2, 601, 601, "b">> \in sq_store
  /\ \E c \in Enqueued : sq_calls[c].batch = 3 /\ sq_calls[c].promise = "resolved"

(***************************************************************************)
(* Properties of saveListingAnalysis                                       *)
(***************************************************************************)
\* C20: once saveListingAnalysis was called for a symbol id the table holds
\* exactly one row for it; the row has the listing date, the status and the
\* error message of the last call, and the call left retry_count as it was
\* (0, the column's default, when the call inserted the row).
C20_UpsertKeepsRetryCount ==
  \A s \in SymbolIds :
    IF la_last[s].made
    THEN /\ Cardinality(RowsOf(listing_analysis, s)) = 1
         /\ \A r \in RowsOf(listing_analysis, s) :
              /\ r.listing_date = la_last[s].listingDate
              /\ r.data_status = la_last[s].status
              /\ r.error_message = la_last[s].errorMessage
              /\ r.retry_count = la_last[s].retryBefore + la_since[s]
    ELSE RowsOf(listing_analysis, s) = {}

\* C20 happens: a symbol whose row had retry_count 2 was saved again, with
\* another listing date, status and error message
C20_Witness ==
  /\ la_last[1].made /\ la_last[1].hadRow
  /\ la_last[1].retryBefore = 2 /\ la_since[1] = 0
  /\ la_last[1].listingDate = 200 /\ la_last[1].status = "error"
  /\ la_last[1].errorMessage = "fail"
  /\ \E r \in listing_analysis :
       r.symbol_id = 1 /\ r.retry_count = 2 /\ r.data_status = "error"
  /\ RowsOf(listing_analysis, 2) # {}

(***************************************************************************)
(* Properties of determineListingDate and analyzeSymbolListing             *)
(***************************************************************************)
\* a candle with volume > 0 and open price > 0
RealTrade(kline) == kline.volume > 0 /\ kline.open > 0
\* i is the first candle of klines for which has(kline) holds
IsFirst(klines, i, has(_)) ==
  /\ i \in 1..Len(klines)
  /\ has(klines[i])
  /\ \A j \in 1..(i - 1) : ~has(klines[j])
RealVolume(kline) == kline.volume > 0
\* determineListingDate returned a value in the attempt that just ended
DL_Done == dl_pc = "done" /\ dl_return.kind = "value"
\* the attempt made exactly these getKlines requests
Asked(intervals) == dl_requests = intervals

\* C21: when getExchangeInfo gives a non-zero onboardDate for the symbol,
\* determineListingDate returns that timestamp and has made no getKlines
\* request.
C21_OnboardDateWins ==
  (dl_meta.ok /\ dl_meta.found /\ dl_meta.onboardDate \notin {0, NullDate}) =>
    /\ dl_return = [kind |-> "value", value |-> dl_meta.onboardDate]
    /\ dl_requests = <<>>
    /\ dl_pc = "done"

\* C21 happens: the metadata held an onboardDate and the analysis ended with
\* it as the listing date
C21_Witness ==
  /\ dl_meta.ok /\ dl_meta.found /\ dl_meta.onboardDate = OnboardDate
  /\ dl_pc = "done"
  /\ dl_result.success /\ dl_result.listingDate = OnboardDate

C23_NoTradeIsNoData ==
  (dl_copy = 1 /\ Asked(<<"1d">>) /\ dl_pc = "done" /\ dl_daily.ok
     /\ \A i \in 1..Len(dl_daily.klines) : ~RealTrade(dl_daily.klines[i])) =>
    /\ dl_return = [kind |-> "value", value |-> NullDate]
    /\ \A r \in RowsOf(listing_analysis, TheSymbol.id) : r.data_status = "no_data"

\* C24: when the hourly request fails, determineListingDate returns the
\* timestamp it had before the request (the first traded daily candle's open
\* time; earliestTimestamp in the second definition); when the minute
\* request fails, it returns the hourly candle's open time; it does not throw.
C24_RefinementBestEffort ==
  /\ (dl_pc = "done" /\ dl_copy = 1 /\ Asked(<<"1d", "1h">>) /\ ~dl_hourly.ok) =>
       /\ dl_return.kind = "value"
       /\ \E k \in 1..Len(dl_daily.klines) :
            /\ IsFirst(dl_daily.klines, k, RealTrade)
            /\ dl_return.value = dl_daily.klines[k].openTime
  /\ (dl_pc = "done" /\ dl_copy = 2 /\ dl_requests # <<>>
        /\ dl_requests[Len(dl_requests)] = "1h" /\ ~dl_hourly.ok) =>
       dl_return = [kind |-> "value", value |-> dl_earliest]
  /\ (dl_pc = "done" /\ dl_copy = 2 /\ Len(dl_requests) > 1
        /\ dl_requests[Len(dl_requests) - 1] = "1h" /\ ~dl_minute.ok) =>
       /\ dl_return.kind = "value"
       /\ \E k \in 1..Len(dl_hourly.klines) :
            /\ IsFirst(dl_hourly.klines, k, RealTrade)
            /\ dl_return.value = dl_hourly.klines[k].openTime

\* C24 happens: the hourly request failed after the daily scan found its
\* candle, and the analysis was saved with the daily candle's open time
C24_Witness ==
  /\ dl_pc = "done" /\ dl_copy = 1 /\ Asked(<<"1d", "1h">>) /\ ~dl_hourly.ok
  /\ Len(dl_daily.klines) = 2 /\ IsFirst(dl_daily.klines, 2, RealTrade)
  /\ dl_result.success
  /\ dl_result.listingDate = dl_daily.klines[2].openTime
  /\ \E r \in listing_analysis :
       r.data_status = "analyzed" /\ r.listing_date = dl_daily.klines[2].openTime

(***************************************************************************)
(* Properties of the backoff multiplier                                    *)
(***************************************************************************)
\* C25: in every state 1.0 <= backoffMultiplier <= 5.0 (1000 and 5000
\* thousandths).
C25_BackoffWithinBounds == 1000 <= backoffMultiplier /\ backoffMultiplier <= 5000

\* C25 happens: a rate-limit error found the multiplier above 2.5 and left
\* it at the cap 5.0
C25_Witness ==
  /\ bm_call.op = "handleRateLimitError"
  /\ bm_call.m0 > 2500
  /\ backoffMultiplier = 5000

\* C26: a reported used weight w > 0 becomes currentWeight, and the
\* multiplier m becomes min(5.0, m * 1.2) when w is above 80 % of maxWeight,
\* max(1.0, m * 0.95) when w is below 50 % and m > 1.0, and stays m otherwise.
C26_HeaderAdjustsMultiplier ==
  (bm_call.op = "processResponseHeaders" /\ bm_call.usedWeight > 0) =>
    /\ bm_call.cw1 = bm_call.usedWeight
    /\ bm_call.m1 =
         IF bm_call.usedWeight * 100 > 80 * maxWeight
         THEN Min(5000, (bm_call.m0 * 12) \div 10)
         ELSE IF bm_call.usedWeight * 100 < 50 * maxWeight /\ bm_call.m0 > 1000
         THEN Max(1000, (bm_call.m0 * 95) \div 100)
         ELSE bm_call.m0

\* C36: processResponseHeaders with a reported weight above 80 % of
\* maxWeight never lowers the multiplier: it leaves a value of at least the
\* value m it found, also for m above 3.0.
C36_HighUsageNeverLowers ==
  (/\ bm_call.op = "processResponseHeaders"
   /\ bm_call.usedWeight * 100 > 80 * maxWeight)
    => bm_call.m1 >= bm_call.m0

(***************************************************************************)
(* Properties of concurrent request() calls                                *)
(***************************************************************************)
\* C30: any two HTTP requests of the shared client are sent at least
\* rateLimitDelay ms apart, however the callers' request() calls interleave.
C30_RequestsSpacedApart ==
  \A c, d \in Callers :
    (c # d /\ er_sentAt[c] # NotSent /\ er_sentAt[d] # NotSent) =>
      \/ er_sentAt[c] - er_sentAt[d] >= rateLimitDelay
      \/ er_sentAt[d] - er_sentAt[c] >= rateLimitDelay

(***************************************************************************)
(* Properties of the save queue under concurrent enqueues                  *)
(***************************************************************************)
\* the calls whose batch a running loop holds
HeldCalls == { sq_loops[l].call : l \in { k \in DOMAIN sq_loops : sq_loops[k].pc # "sleep" } }

QueuedCalls == { saveQueue[k] : k \in DOMAIN saveQueue }

SettledPromises == {"resolved", "rejected"}

\* C31: every batch enqueued with queueSaveKlines is saved or rejected
\* exactly once and eventually, whatever the interleaving of enqueues with
\* the drain loop: a pending batch is either in the queue or held by the one
\* running loop, never both and never twice; a settled promise is not
\* settled again; again and again a state is reached in which no enqueued
\* batch is pending, so that every pending promise is eventually settled; and
\* waitForAllSaves returns only in a state where the queue is empty and
\* isSaving is false.
C31_EveryBatchSettledOnce ==
  /\ [](/\ Len(sq_loops) <= 1
        /\ \A j, k \in DOMAIN saveQueue : saveQueue[j] = saveQueue[k] => j = k
        /\ QueuedCalls \cap HeldCalls = {}
        /\ \A c \in DOMAIN sq_calls :
             sq_calls[c].promise = "pending" <=> c \in QueuedCalls \cup HeldCalls)
  /\ [][\A c \in DOMAIN sq_calls :
          sq_calls[c].promise \in SettledPromises =>
            sq_calls'[c].promise = sq_calls[c].promise]_vars
  /\ []<>(\A c \in DOMAIN sq_calls : sq_calls[c].promise \in SettledPromises)
  /\ [][(ws_pc # "returned" /\ ws_pc' = "returned") =>
          (saveQueue = <<>> /\ ~isSaving /\ saveQueue' = <<>> /\ ~isSaving')]_vars

\* C31 happens: MaxCalls batches were enqueued, one of them while the loop
\* was busy, one was rejected, all are settled and waitForAllSaves, which
\* had to sleep, has returned
C31_Witness ==
  /\ Len(sq_calls) = MaxCalls
  /\ \A c \in DOMAIN sq_calls : sq_calls[c].promise \in SettledPromises
  /\ \E c \in DOMAIN sq_calls : sq_calls[c].promise = "rejected"
  /\ \E c \in DOMAIN sq_calls : sq_calls[c].promise = "resolved"
  /\ ws_pc = "returned"
  /\ sq_store # sq_store0

(***************************************************************************)
(* Properties of collectSymbolKlines: what a failure leaves behind         *)
(***************************************************************************)
\* hasExistingData(symbolId) on a table, which is also the NOT EXISTS test
\* of getNewListings
HasCandles(store, symbolId) == \E r \in store : r[1] = symbolId

\* C32: when collectSymbolKlines returns a failure for a symbol that had no
\* stored candle before the call (none at the start, and no other call is
\* for that symbol), the table holds no candle of the symbol afterwards, so
\* hasExistingData is false and getNewListings selects the symbol again.
C32_FailureLeavesNoCandles ==
  \A c \in DOMAIN sq_calls :
    LET symbolId == Batches[sq_calls[c].batch].symbolId
    IN (/\ sq_calls[c].via = "collectSymbolKlines"
        /\ sq_calls[c].result = "failure"
        /\ ~HasCandles(sq_store0, symbolId)
        /\ \A d \in DOMAIN sq_calls \ {c} : Batches[sq_calls[d].batch].symbolId # symbolId)
       => ~HasCandles(sq_store, symbolId)

(***************************************************************************)
(* Properties of the request queue under reset()                           *)
(***************************************************************************)
\* the ids of the requests waiting in this.requestQueue
WaitingIds == { requestQueue[k].id : k \in DOMAIN requestQueue }

\* C33: every request passed to executeRequest is eventually resolved or
\* rejected, also when reset() is called: a request whose promise is pending
\* is always either waiting in the queue or held by the drain loop, the only
\* places from which a promise is settled.
C33_NoRequestLost ==
  \A id \in 1..rl_created :
    rl_settled[id] = "pending" =>
      \/ id \in WaitingIds
      \/ (rl_pc # "idle" /\ rl_req.id = id)

(***************************************************************************)
(* Properties of the drain loop of BinanceRateLimitManager                 *)
(***************************************************************************)
\* the requests taken from the queue whose promise is not settled
InProcess == { id \in 1..rl_created : rl_settled[id] = "pending" /\ id \notin WaitingIds }

\* the budget counters
Budget == <<currentWeight, requestsThisMinute, requestsThisSecond>>

\* the step is one of the drain loop: its position, request, attempt or
\* pending timer changes
LoopMoves == <<rl_pc, rl_req, rl_attempt, rl_wake>>' # <<rl_pc, rl_req, rl_attempt, rl_wake>>

\* C34 as stated: while a request is being processed the budget counters
\* are changed by the drain loop only.
C34_OnlyLoopChangesBudget ==
  [][(isProcessing /\ ~LoopMoves) => Budget' = Budget]_vars

\* C34, amended: at most one request is between its removal from the queue
\* and its settlement, and it is the one the single drain loop holds, so no
\* second request enters waitForPermission or has its function called
\* before; while it is processed, a step that is not the loop's leaves each
\* budget counter as it is or sets it to zero (the interval timers).
C34_OneRequestAtATime ==
  /\ [](/\ Cardinality(InProcess) <= 1
        /\ \A id \in InProcess : isProcessing /\ rl_pc # "idle" /\ rl_req.id = id
        /\ isProcessing <=> rl_pc # "idle")
  /\ [][(isProcessing /\ ~LoopMoves) =>
          /\ currentWeight' \in {currentWeight, 0}
          /\ requestsThisMinute' \in {requestsThisMinute, 0}
          /\ requestsThisSecond' \in {requestsThisSecond, 0}]_vars

\* C34 happens: a request's function is in flight, another request waits in
\* the queue, and the 1000 ms timer has zeroed requestsThisSecond since the
\* permission was given
C34_Witness ==
  /\ rl_pc = "exec"
  /\ requestQueue # <<>>
  /\ permit.n >= 1
  /\ requestsThisSecond = 0

\* C35: every invocation of a request function, the first attempt and each
\* retry of executeWithRetry, starts in the step in which a waitForPermission
\* of its own completes: a permission is recorded and currentWeight,
\* requestsThisMinute and requestsThisSecond are raised for it.
C35_PermissionBeforeEveryCall ==
  [][(rl_pc' = "exec" /\ (rl_pc # "exec" \/ rl_req' # rl_req)) =>
       /\ permit'.n = permit.n + 1
       /\ currentWeight' = permit'.cw + rl_req'.weight
       /\ requestsThisMinute' = permit'.rpm + 1
       /\ requestsThisSecond' = permit'.rps + 1]_vars

(***************************************************************************)
(* Properties of the priority order of the request queue                   *)
(***************************************************************************)
\* request a goes before request b: higher priority, or the same priority
\* and earlier arrival (ids are given in arrival order)
GoesBefore(a, b) ==
  \/ PriorityOrder(a.priority) < PriorityOrder(b.priority)
  \/ (a.priority = b.priority /\ a.id < b.id)

\* C37: the queue is always ordered by priority (high, normal, low) and by
\* arrival within a priority, and the request the loop takes is one that no
\* request left waiting goes before.
C37_QueueOrdered ==
  /\ [](\A i, j \in DOMAIN requestQueue : i < j => GoesBefore(requestQueue[i], requestQueue[j]))
  /\ [][rl_req' # rl_req =>
          \A k \in DOMAIN requestQueue' : ~GoesBefore(requestQueue'[k], rl_req')]_vars

\* C37 happens: requests of all three priorities wait, two of one priority
\* among them, the latest arrival of high priority at the head, and the loop
\* has taken a request before
C37_Witness ==
  /\ Len(requestQueue) = 4
  /\ { requestQueue[k].priority : k \in DOMAIN requestQueue } = AllPriorities
  /\ requestQueue[1].id = rl_created
  /\ rl_req.id # 0

(***************************************************************************)
(* Properties of the status analyzeSymbolListing records                   *)
(***************************************************************************)
\* the call of analyzeSymbolListing is over: it returned or it rejected
CallEnded == dl_pc \in {"done", "rejected"}

\* one status is recorded for the symbol and the returned value agrees with
\* it: analyzed with a timestamp and success, no_data with a null timestamp,
\* or error with a message after attempt maxRetries
OneStatusRecorded ==
  /\ Cardinality(listing_analysis) = 1
  /\ \A r \in RowsOf(listing_analysis, TheSymbol.id) :
       \/ /\ r.data_status = "analyzed"
          /\ Truthy(r.listing_date) /\ r.error_message = Null
          /\ dl_result.success /\ dl_result.listingDate = r.listing_date
       \/ /\ r.data_status = "no_data"
          /\ r.listing_date = NullDate /\ r.error_message = Null
          /\ ~dl_result.success /\ dl_result.reason = "no_data"
       \/ /\ r.data_status = "error"
          /\ r.listing_date = NullDate /\ r.error_message # Null
          /\ dl_attempt = AnalyzeMaxRetries
          /\ ~dl_result.success /\ dl_result.reason = r.error_message
  /\ RowsOf(listing_analysis, TheSymbol.id) = listing_analysis

\* C38 (as stated): analyzeSymbolListing makes at most 2 attempts and always
\* ends with exactly one status recorded for the symbol (analyzed with a
\* timestamp, no_data with a null timestamp, or error with a message after
\* the last failed attempt); it reports success exactly when that status is
\* analyzed, and never without a listing timestamp.
C38_AlwaysOneStatus ==
  /\ dl_attempt <= AnalyzeMaxRetries
  /\ CallEnded => OneStatusRecorded

\* C38 (amended): analyzeSymbolListing makes at most 2 attempts; when it
\* returns, exactly one status is recorded for the symbol, written in the
\* step that returns, and success is reported exactly when that status is
\* analyzed, with a listing timestamp; when the write of the error status
\* throws after attempt 2, the call rejects and no status is recorded.
C38_OneStatusWhenReturned ==
  /\ [](dl_attempt <= AnalyzeMaxRetries)
  /\ [](dl_pc = "done" => OneStatusRecorded)
  /\ [](dl_pc = "rejected" =>
         /\ dl_attempt = AnalyzeMaxRetries
         /\ <<AnalyzeMaxRetries, "catch">> \in db_locked
         /\ listing_analysis = {})
  /\ [](dl_pc \notin {"done", "rejected"} => listing_analysis = {})
  /\ [][listing_analysis' # listing_analysis =>
         dl_pc # "done" /\ dl_pc' = "done"]_vars

\* C38 happens: attempt 2 determined a listing date, the write of analyzed
\* threw, and the call returned a failure with the status error recorded
C38_Witness ==
  /\ dl_pc = "done" /\ dl_attempt = AnalyzeMaxRetries
  /\ dl_return.kind = "value" /\ Truthy(dl_return.value)
  /\ <<AnalyzeMaxRetries, "try">> \in db_locked
  /\ ~dl_result.success
  /\ \E r \in listing_analysis : r.data_status = "error"

(***************************************************************************)
(* Properties of repeated analysis runs                                    *)
(***************************************************************************)
\* no symbol is selected and recorded as error in more than 3 runs
AtMostThreeRuns == \A s \in SymbolIds : ar_failed[s] <= RetryLimit

\* C39: a symbol whose listing analysis keeps failing is selected by
\* getSymbolsForAnalysis in at most 3 analysis runs: each run that ends in
\* status error has raised the symbol's retry_count, and a symbol with
\* status error and retry_count >= 3 is not selected.
C39_FailingSymbolGivenUp ==
  /\ AtMostThreeRuns
  /\ \A s \in SymbolIds :
       \A r \in RowsOf(listing_analysis, s) :
         /\ (r.data_status = "error" /\ s \notin ar_pending) =>
              r.retry_count >= ar_failed[s]
         /\ (r.data_status = "error" /\ r.retry_count >= RetryLimit) =>
              ~Selectable(listing_analysis, s)

(***************************************************************************)
(* Specifications                                                          *)
(***************************************************************************)
IdleClock == now = 1000000

InitBackfill ==
  IdleClock /\ HKInitWith({"contract"}) /\ RQIdle /\ PEIdle /\ RLIdle /\ WMIdle /\ SQIdle /\ LAIdle /\ DLIdle /\ BMIdle /\ ERIdle /\ ARIdle /\ DBIdle /\ WSIdle
InitBackfillAny ==
  IdleClock /\ HKInitWith({"contract", "stale"}) /\ RQIdle /\ PEIdle /\ RLIdle /\ WMIdle /\ SQIdle /\ LAIdle /\ DLIdle /\ BMIdle /\ ERIdle /\ ARIdle /\ DBIdle /\ WSIdle

SpecBackfill == InitBackfill /\ [][HKNext]_vars
SpecBackfillAny == InitBackfillAny /\ [][HKNext]_vars
SpecBackfillAnyFair == InitBackfillAny /\ [][HKNext]_vars /\ WF_vars(HKNext)

InitRequest == IdleClock /\ HKIdle /\ RQInit /\ PEIdle /\ RLIdle /\ WMIdle /\ SQIdle /\ LAIdle /\ DLIdle /\ BMIdle /\ ERIdle /\ ARIdle /\ DBIdle /\ WSIdle
SpecRequest == InitRequest /\ [][RQNext]_vars

InitClassify == IdleClock /\ HKIdle /\ RQIdle /\ PEInit /\ RLIdle /\ WMIdle /\ SQIdle /\ LAIdle /\ DLIdle /\ BMIdle /\ ERIdle /\ ARIdle /\ DBIdle /\ WSIdle
SpecClassify == InitClassify /\ [][PE_Parse]_vars

InitRateLimit == HKIdle /\ RQIdle /\ PEIdle /\ RLInit /\ WMIdle /\ SQIdle /\ LAIdle /\ DLIdle /\ BMIdle /\ ERIdle /\ ARIdle /\ DBIdle /\ WSIdle
SpecRateLimit == InitRateLimit /\ [][RLNext]_vars

InitPriorityQueue ==
  /\ IdleClock /\ HKIdle /\ RQIdle /\ PEIdle /\ WMIdle /\ SQIdle /\ LAIdle /\ DLIdle /\ BMIdle /\ ERIdle /\ ARIdle /\ DBIdle /\ WSIdle
  /\ RLIdle
SpecPriorityQueue == InitPriorityQueue /\ [][PQNext]_vars

InitQueueReset ==
  /\ HKIdle /\ RQIdle /\ PEIdle /\ WMIdle /\ SQIdle /\ LAIdle /\ DLIdle /\ BMIdle /\ ERIdle /\ ARIdle /\ DBIdle /\ WSIdle
  /\ RLInitWith({[maxRequestsPerMinute |-> 900, maxRequestsPerSecond |-> 1,
                  maxWeight |-> 5000, at |-> 600000]}, {0})
SpecQueueReset == InitQueueReset /\ [][RLResetNext]_vars

InitWorkers == IdleClock /\ HKIdle /\ RQIdle /\ PEIdle /\ RLIdle /\ WMInit /\ SQIdle /\ LAIdle /\ DLIdle /\ BMIdle /\ ERIdle /\ ARIdle /\ DBIdle /\ WSIdle
SpecWorkers == InitWorkers /\ [][WMNext]_vars
\* every task function settles
SpecWorkersFair == InitWorkers /\ [][WMNext]_vars /\ WF_vars(WMNext)

InitSaveQueue == IdleClock /\ HKIdle /\ RQIdle /\ PEIdle /\ RLIdle /\ WMIdle /\ SQInit /\ LAIdle /\ DLIdle /\ BMIdle /\ ERIdle /\ ARIdle /\ DBIdle /\ WSIdle
SpecSaveQueue == InitSaveQueue /\ [][SQNext]_vars

InitSaves ==
  /\ IdleClock /\ HKIdle /\ RQIdle /\ PEIdle /\ RLIdle /\ WMIdle /\ LAIdle /\ DLIdle /\ BMIdle /\ ERIdle /\ ARIdle /\ DBIdle
  /\ SQInit /\ WSInit
\* every timer fires and every database statement ends, so the drain loop
\* and the polling of waitForAllSaves keep taking their steps
SpecSavesFair ==
  InitSaves /\ [][SavesNext]_vars /\ WF_vars(DrainNext) /\ WF_vars(WSNext)

InitListing == IdleClock /\ HKIdle /\ RQIdle /\ PEIdle /\ RLIdle /\ WMIdle /\ SQIdle /\ LAInit /\ DLIdle /\ BMIdle /\ ERIdle /\ ARIdle /\ DBIdle /\ WSIdle
SpecListing == InitListing /\ [][LANext]_vars

InitAnalyze == IdleClock /\ HKIdle /\ RQIdle /\ PEIdle /\ RLIdle /\ WMIdle /\ SQIdle /\ LAInit /\ DLInit /\ BMIdle /\ ERIdle /\ ARIdle /\ DBIdle /\ WSIdle
SpecAnalyze == InitAnalyze /\ [][DLNext]_vars

InitAnalyzeDb == IdleClock /\ HKIdle /\ RQIdle /\ PEIdle /\ RLIdle /\ WMIdle /\ SQIdle /\ LAInit /\ DLInit /\ BMIdle /\ ERIdle /\ ARIdle /\ DBInit /\ WSIdle
\* analyzeSymbolListing on a database whose writes can throw
SpecAnalyzeDb == InitAnalyzeDb /\ [][DLNext]_vars

InitRuns == IdleClock /\ HKIdle /\ RQIdle /\ PEIdle /\ RLIdle /\ WMIdle /\ SQIdle /\ LAInit /\ DLIdle /\ BMIdle /\ ERIdle /\ DBIdle /\ WSIdle /\ ARInit
SpecRuns == InitRuns /\ [][ARNext]_vars

InitBackoff == IdleClock /\ HKIdle /\ RQIdle /\ PEIdle /\ RLIdle /\ WMIdle /\ SQIdle /\ LAIdle /\ DLIdle /\ BMIdle /\ ERIdle /\ ARIdle /\ DBIdle /\ WSIdle
SpecBackoff == InitBackoff /\ [][BMNext]_vars

InitCallers ==
  /\ IdleClock /\ HKIdle /\ PEIdle /\ RLIdle /\ WMIdle /\ SQIdle /\ LAIdle /\ DLIdle /\ BMIdle
  /\ RQInit /\ ERInit /\ WSIdle /\ DBIdle /\ ARIdle
SpecCallers == InitCallers /\ [][ERNext]_vars
====
